---------------------------- MODULE Spec2Model ----------------------------
(***************************************************************************)
(* A model of the bond registry (registry/crud.py, registry/models.py,     *)
(* registry/db.py): the DynamoDB table "bond", the engine operations that  *)
(* read and write it, and the callers that invoke them.                    *)
(***************************************************************************)
EXTENDS Naturals, Sequences, FiniteSets, TLC

(***************************************************************************)
(* Bounds of the model.                                                    *)
(***************************************************************************)
NumBondIds == 2
NumSids == 2
NumVersions == 2
NumVals == 2
MaxVaried == 1
NumProcs == 2

BondIdNames == <<"b1", "b2", "b3", "b4">>
SidNames == <<"u1", "u2", "u3", "u4">>
PersonNames == <<"Ann", "Bob", "Cyd", "Dee">>
EmailNames == <<"ann@x.com", "bob@x.com", "cyd@x.com", "dee@x.com">>
ValNames == <<"red", "blue", "green", "gold">>

BondIds == {BondIdNames[i] : i \in 1..NumBondIds}
Sids == {SidNames[i] : i \in 1..NumSids}
Vals == {ValNames[i] : i \in 1..NumVals}
Procs == 1..NumProcs

(***************************************************************************)
(* registry/models.py: Subscriber and Bond.                                *)
(***************************************************************************)
Subscriber(sid, name, email) ==
    [cls |-> "Subscriber", sid |-> sid, name |-> name, email |-> email]

Bond(bond_id, host_account_id, sub_account_id, host_cost_center, sub_cost_center, subscribers) ==
    [bond_id |-> bond_id,
     host_account_id |-> host_account_id,
     sub_account_id |-> sub_account_id,
     host_cost_center |-> host_cost_center,
     sub_cost_center |-> sub_cost_center,
     subscribers |-> subscribers]

\* The names of the six fields of a Bond.
ItemFields ==
    {"bond_id", "host_account_id", "sub_account_id", "host_cost_center",
     "sub_cost_center", "subscribers"}

\* self.subscribers.setdefault(sub.sid, sub): an existing entry is kept.
Bond_add_subscriber_keep_existing(self, sub) ==
    [self EXCEPT !.subscribers =
        [k \in (DOMAIN self.subscribers) \cup {sub.sid} |->
            IF k \in DOMAIN self.subscribers THEN self.subscribers[k] ELSE sub]]

\* self.subscribers = {sub.sid: sub}: the other entries are dropped.
Bond_add_subscriber_alone(self, sub) ==
    [self EXCEPT !.subscribers = [k \in {sub.sid} |-> sub]]

\* add_subscriber as a toggle: a subscriber whose sid is a key is taken out.
Bond_add_subscriber_toggle(self, sub) ==
    [self EXCEPT !.subscribers =
        IF sub.sid \in DOMAIN self.subscribers
        THEN [k \in (DOMAIN self.subscribers) \ {sub.sid} |-> self.subscribers[k]]
        ELSE [k \in (DOMAIN self.subscribers) \cup {sub.sid} |->
                IF k = sub.sid THEN sub ELSE self.subscribers[k]]]

\* self.subscribers[sub.sid] = sub
Bond_add_subscriber(self, sub) ==
    [self EXCEPT !.subscribers =
        [k \in (DOMAIN self.subscribers) \cup {sub.sid} |->
            IF k = sub.sid THEN sub ELSE self.subscribers[k]]]

\* self.subscribers.clear(): every entry is dropped.
Bond_remove_subscriber_clear(self, sub_id) ==
    [self EXCEPT !.subscribers = <<>>]

\* remove_subscriber that leaves the mapping as it is.
Bond_remove_subscriber_keep(self, sub_id) ==
    self

\* self.subscribers.pop(sub_id, None)
Bond_remove_subscriber(self, sub_id) ==
    [self EXCEPT !.subscribers =
        [k \in (DOMAIN self.subscribers) \ {sub_id} |-> self.subscribers[k]]]

(***************************************************************************)
(* The conversions between a Bond and the item stored for it.              *)
(***************************************************************************)
\* An encoder that writes the email under "name" and the name under "email".
jsonable_encoder_swapped(subscribers) ==
    [k \in DOMAIN subscribers |->
        [sid |-> subscribers[k].sid,
         name |-> subscribers[k].email,
         email |-> subscribers[k].name]]

\* fastapi's jsonable_encoder on Dict[str, Subscriber]: each Subscriber
\* becomes the plain mapping of its three fields.
jsonable_encoder(subscribers) ==
    [k \in DOMAIN subscribers |->
        [sid |-> subscribers[k].sid,
         name |-> subscribers[k].name,
         email |-> subscribers[k].email]]

\* pydantic's parse of the stored "subscribers" attribute into
\* Dict[str, Subscriber], as Bond(...) does in bond_from_item.
parse_subscribers(attr) ==
    [k \in DOMAIN attr |-> Subscriber(attr[k].sid, attr[k].name, attr[k].email)]

\* bond_from_item leaving the subscribers at the default of the Bond class.
bond_from_item_no_subscribers(item) ==
    Bond(item.bond_id, item.host_account_id, item.sub_account_id,
         item.host_cost_center, item.sub_cost_center, <<>>)

bond_from_item(item) ==
    Bond(item.bond_id, item.host_account_id, item.sub_account_id,
         item.host_cost_center, item.sub_cost_center,
         parse_subscribers(item.subscribers))

(***************************************************************************)
(* The inputs the callers draw their arguments from.                       *)
(***************************************************************************)
Attributes ==
    {"host_account_id", "sub_account_id", "host_cost_center", "sub_cost_center"}

Subscribers ==
    {Subscriber(s, PersonNames[v], EmailNames[v]) : s \in Sids, v \in 1..NumVersions}

\* Dict[str, Subscriber]: the model validates the values, not that a key is
\* the sid of its value.
SubscriberMaps ==
    UNION {[S -> Subscribers] : S \in SUBSET Sids}

\* How many of the five non-key fields of b differ from those of the plainest
\* bond (every attribute the first value, no subscribers).
Varied(b) ==
    Cardinality({a \in Attributes : b[a] # ValNames[1]})
    + (IF DOMAIN b.subscribers # {} THEN 1 ELSE 0)

\* The bonds callers pass to create_bond and update_bond.
Bonds ==
    {b \in {Bond(i, t["host_account_id"], t["sub_account_id"], t["host_cost_center"],
                 t["sub_cost_center"], m) :
                i \in BondIds, t \in [Attributes -> Vals], m \in SubscriberMaps} :
        Varied(b) <= MaxVaried}

Call(op, args) == [op |-> op, args |-> args]

\* What can go wrong at the backing store during one call of an operation:
\* nothing; an error response (a botocore ClientError) while the connection
\* is opened (table.table_arn) or from the store call (throttling); the
\* endpoint not reachable (a botocore EndpointConnectionError, which is no
\* ClientError) while the connection is opened or at the store call.
Faults == {"none", "connect", "call", "connect_unreachable", "call_unreachable"}
NoFaults == {"none"}

VARIABLES
    store,   \* the items of the DynamoDB table "bond"
    pc,      \* pc[p]: where caller p is
    call,    \* call[p]: the operation p has invoked, with its arguments
    local,   \* local[p]: the variable bond of add_/remove_subscriber, <<>> when unset
    ret,     \* ret[p]: what the operation returned or raised to p
    pre,     \* pre[p]: the table as it was at the first store access of p's call
    mid,     \* mid[p]: the table as the latest store access of p's call met it
    fault,   \* fault[p]: what went wrong at the latest store access of p's call
    post     \* post[p]: the table as the latest store access of p's call left it

vars == <<store, pc, call, local, ret, pre, mid, fault, post>>

NoCall == Call("none", <<>>)

(***************************************************************************)
(* What an operation hands back: a returned value or a raised exception,   *)
(* and the table as the operation leaves it.                               *)
(***************************************************************************)
NoneValue == [type |-> "None", val |-> <<>>]
BondValue(b) == [type |-> "Bond", val |-> <<b>>]
ListValue(bonds) == [type |-> "List", val |-> bonds]

Returns(out, table) == [exc |-> "", msg |-> <<>>, out |-> out, table |-> table]
Raises(exc, msg, table) == [exc |-> exc, msg |-> msg, out |-> NoneValue, table |-> table]

NoRet == [exc |-> "none", msg |-> <<>>, out |-> NoneValue]

(***************************************************************************)
(* The backing store: the DynamoDB table "bond" with the hash key bond_id  *)
(* and four global secondary indexes.  A store call answers with an error  *)
(* code ("" for none) and the table as the call leaves it; f = "call" is a *)
(* backend failure of this call (throttling, a malformed request, ...).    *)
(***************************************************************************)
ItemsWithKey(table, bond_id) == {it \in table : it.bond_id = bond_id}

\* The error codes the store answers with: boto3 raises them as ClientError.
\* Any other failure of a store call is an exception of another class.
ClientErrorCodes ==
    {"ConditionalCheckFailedException", "ProvisionedThroughputExceededException",
     "ValidationException", "ResourceNotFoundException"}

\* The hash key of each global secondary index of the table.
IndexHashKey(IndexName) ==
    CASE IndexName = "bond-host_cost_center-index" -> "host_cost_center"
      [] IndexName = "bond-host_account_id-index" -> "host_account_id"
      [] IndexName = "bond-sub_cost_center-index" -> "sub_cost_center"
      [] IndexName = "bond-sub_account_id-index" -> "sub_account_id"
      [] OTHER -> ""

\* The orders in which the store may list a set of items.
Orderings(S) ==
    {s \in [1..Cardinality(S) -> S] : \A i, j \in 1..Cardinality(S) : i # j => s[i] # s[j]}

put_item(table, Item, ConditionExpression, f) ==
    IF f = "call"
    THEN [Code |-> "ProvisionedThroughputExceededException", table |-> table]
    ELSE IF f = "call_unreachable"
    THEN [Code |-> "EndpointConnectionError", table |-> table]
    ELSE IF ConditionExpression = "attribute_not_exists(bond_id)"
            /\ ItemsWithKey(table, Item.bond_id) # {}
    THEN [Code |-> "ConditionalCheckFailedException", table |-> table]
    ELSE [Code |-> "", table |-> (table \ ItemsWithKey(table, Item.bond_id)) \cup {Item}]

\* update_item applying the update to every item of the table.
update_item_every(table, Key, Values, ConditionExpression, f) ==
    IF f = "call"
    THEN [Code |-> "ProvisionedThroughputExceededException", table |-> table]
    ELSE IF f = "call_unreachable"
    THEN [Code |-> "EndpointConnectionError", table |-> table]
    ELSE IF ConditionExpression = "attribute_exists(bond_id)"
            /\ ItemsWithKey(table, Key) = {}
    THEN [Code |-> "ConditionalCheckFailedException", table |-> table]
    ELSE [Code |-> "",
          table |->
            {[a \in DOMAIN it |-> IF a \in DOMAIN Values THEN Values[a] ELSE it[a]] :
                it \in table}]

\* update_item on a table without a key: the updated item is added and the
\* item it was made from stays.
update_item_copy(table, Key, Values, ConditionExpression, f) ==
    IF f = "call"
    THEN [Code |-> "ProvisionedThroughputExceededException", table |-> table]
    ELSE IF f = "call_unreachable"
    THEN [Code |-> "EndpointConnectionError", table |-> table]
    ELSE IF ConditionExpression = "attribute_exists(bond_id)"
            /\ ItemsWithKey(table, Key) = {}
    THEN [Code |-> "ConditionalCheckFailedException", table |-> table]
    ELSE [Code |-> "",
          table |-> table \cup
            {[a \in DOMAIN it |-> IF a \in DOMAIN Values THEN Values[a] ELSE it[a]] :
                it \in ItemsWithKey(table, Key)}]

update_item(table, Key, Values, ConditionExpression, f) ==
    IF f = "call"
    THEN [Code |-> "ProvisionedThroughputExceededException", table |-> table]
    ELSE IF f = "call_unreachable"
    THEN [Code |-> "EndpointConnectionError", table |-> table]
    ELSE IF ConditionExpression = "attribute_exists(bond_id)"
            /\ ItemsWithKey(table, Key) = {}
    THEN [Code |-> "ConditionalCheckFailedException", table |-> table]
    ELSE IF ItemsWithKey(table, Key) = {}
    THEN [Code |-> "",
          table |-> table \cup
            {[a \in {"bond_id"} \cup DOMAIN Values |->
                IF a = "bond_id" THEN Key ELSE Values[a]]}]
    ELSE [Code |-> "",
          table |->
            {IF it.bond_id = Key
             THEN [a \in DOMAIN it |-> IF a \in DOMAIN Values THEN Values[a] ELSE it[a]]
             ELSE it : it \in table}]

\* delete_item that leaves a record that has subscribers where it is.
delete_item_keep_subscribed(table, Key, f) ==
    IF f = "call"
    THEN [Code |-> "ProvisionedThroughputExceededException", table |-> table]
    ELSE IF f = "call_unreachable"
    THEN [Code |-> "EndpointConnectionError", table |-> table]
    ELSE [Code |-> "",
          table |-> table \ {it \in ItemsWithKey(table, Key) : DOMAIN it.subscribers = {}}]

delete_item(table, Key, f) ==
    IF f = "call"
    THEN [Code |-> "ProvisionedThroughputExceededException", table |-> table]
    ELSE IF f = "call_unreachable"
    THEN [Code |-> "EndpointConnectionError", table |-> table]
    ELSE [Code |-> "", table |-> table \ ItemsWithKey(table, Key)]

\* Python's None where a str is expected: a request that leaves a query
\* parameter out.  No identifier or attribute value is this string.
None == "None"

\* conn.query: the possible responses, one per order of the matching items.
\* A key condition on None is a condition on a value of the NULL type, which
\* no hash key has: the store rejects it or answers with no items.
query(table, query_expr, f) ==
    LET attr == query_expr.KeyConditionExpression[1]
        value == query_expr.KeyConditionExpression[2]
        hash == IF "IndexName" \in DOMAIN query_expr
                THEN IndexHashKey(query_expr.IndexName)
                ELSE "bond_id"
    IN  IF f = "call"
        THEN {[Code |-> "ProvisionedThroughputExceededException", Items |-> <<>>]}
        ELSE IF f = "call_unreachable"
        THEN {[Code |-> "EndpointConnectionError", Items |-> <<>>]}
        ELSE IF attr # hash
        THEN {[Code |-> "ValidationException", Items |-> <<>>]}
        ELSE IF value = None
        THEN {[Code |-> "ValidationException", Items |-> <<>>],
              [Code |-> "", Items |-> <<>>]}
        ELSE {[Code |-> "", Items |-> s] : s \in Orderings({it \in table : it[attr] = value})}

(***************************************************************************)
(* registry/db.py and registry/crud.py.  Each operation maps the table, its *)
(* arguments and the fault f of this call to the set of its possible       *)
(* outcomes (more than one only where the store chooses an order).         *)
(***************************************************************************)
\* with_connection_ with "except Exception": whatever func raises is turned
\* into RegistryClientError.
db_connector_catch_all(outcomes, table, f) ==
    IF f \in {"connect", "connect_unreachable"}
    THEN {Raises("RegistryClientError", <<"Failed to connect to the database: ", f>>, table)}
    ELSE {IF o.exc # ""
          THEN Raises("RegistryClientError", <<"Failed to connect to the database: ", f>>, o.table)
          ELSE o : o \in outcomes}

\* with_connection_ meeting the error of the connection only after func
\* has run: what func wrote stays written.
db_connector_late_failure(outcomes, table, f) ==
    IF f = "connect"
    THEN {Raises("RegistryClientError",
                 <<"Failed to connect to the database: ", "ResourceNotFoundException">>,
                 o.table) : o \in outcomes}
    ELSE IF f = "connect_unreachable"
    THEN {Raises("EndpointConnectionError", <<"Could not connect to the endpoint URL">>, table)}
    ELSE {IF o.exc = "ClientError"
          THEN Raises("RegistryClientError", <<"Failed to connect to the database: ", f>>, o.table)
          ELSE o : o \in outcomes}

\* with_connection_: open the connection, call func with the table, turn a
\* ClientError into RegistryClientError, hand back what func returned.
db_connector(outcomes, table, f) ==
    IF f = "connect"
    THEN {Raises("RegistryClientError",
                 <<"Failed to connect to the database: ", "ResourceNotFoundException">>, table)}
    ELSE IF f = "connect_unreachable"
    THEN {Raises("EndpointConnectionError", <<"Could not connect to the endpoint URL">>, table)}
    ELSE {IF o.exc = "ClientError"
          THEN Raises("RegistryClientError", <<"Failed to connect to the database: ", f>>, o.table)
          ELSE o : o \in outcomes}

\* create_bond with the ConditionExpression left out of put_item.
create_bond_unconditional(table, bond, f) ==
    db_connector(
        LET response ==
                put_item(table,
                         [bond_id |-> bond.bond_id,
                          host_account_id |-> bond.host_account_id,
                          sub_account_id |-> bond.sub_account_id,
                          host_cost_center |-> bond.host_cost_center,
                          sub_cost_center |-> bond.sub_cost_center,
                          subscribers |-> jsonable_encoder(bond.subscribers)],
                         "", f)
        IN  {IF response.Code = "ConditionalCheckFailedException"
             THEN Raises("ConditionalCheckError",
                         <<"Bond already exists: bond_id=", bond.bond_id>>, response.table)
             ELSE IF response.Code \in ClientErrorCodes
             THEN Raises("RegistryClientError",
                         <<"Unexpected error querying the registry: ", response.Code>>,
                         response.table)
             ELSE IF response.Code # ""
             THEN Raises(response.Code, <<"Could not connect to the endpoint URL">>,
                         response.table)
             ELSE Returns(BondValue(bond), response.table)},
        table, f)

create_bond(table, bond, f) ==
    db_connector(
        LET response ==
                put_item(table,
                         [bond_id |-> bond.bond_id,
                          host_account_id |-> bond.host_account_id,
                          sub_account_id |-> bond.sub_account_id,
                          host_cost_center |-> bond.host_cost_center,
                          sub_cost_center |-> bond.sub_cost_center,
                          subscribers |-> jsonable_encoder(bond.subscribers)],
                         "attribute_not_exists(bond_id)", f)
        IN  {IF response.Code = "ConditionalCheckFailedException"
             THEN Raises("ConditionalCheckError",
                         <<"Bond already exists: bond_id=", bond.bond_id>>, response.table)
             ELSE IF response.Code \in ClientErrorCodes
             THEN Raises("RegistryClientError",
                         <<"Unexpected error querying the registry: ", response.Code>>,
                         response.table)
             ELSE IF response.Code # ""
             THEN Raises(response.Code, <<"Could not connect to the endpoint URL">>,
                         response.table)
             ELSE Returns(BondValue(bond), response.table)},
        table, f)

\* update_bond with the ConditionExpression left out of update_item.
update_bond_unconditional(table, bond, f) ==
    db_connector(
        LET response ==
                update_item(table, bond.bond_id,
                            [host_account_id |-> bond.host_account_id,
                             sub_account_id |-> bond.sub_account_id,
                             host_cost_center |-> bond.host_cost_center,
                             sub_cost_center |-> bond.sub_cost_center,
                             subscribers |-> jsonable_encoder(bond.subscribers)],
                            "", f)
        IN  {IF response.Code = "ConditionalCheckFailedException"
             THEN Raises("ConditionalCheckError",
                         <<"Bond not found: bond_id=", bond.bond_id>>, response.table)
             ELSE IF response.Code \in ClientErrorCodes
             THEN Raises("RegistryClientError",
                         <<"Unexpected error querying the registry: ", response.Code>>,
                         response.table)
             ELSE IF response.Code # ""
             THEN Raises(response.Code, <<"Could not connect to the endpoint URL">>,
                         response.table)
             ELSE Returns(BondValue(bond), response.table)},
        table, f)

\* update_bond binding :scc to the host cost center.
update_bond_wrong_value(table, bond, f) ==
    db_connector(
        LET response ==
                update_item(table, bond.bond_id,
                            [host_account_id |-> bond.host_account_id,
                             sub_account_id |-> bond.sub_account_id,
                             host_cost_center |-> bond.host_cost_center,
                             sub_cost_center |-> bond.host_cost_center,
                             subscribers |-> jsonable_encoder(bond.subscribers)],
                            "attribute_exists(bond_id)", f)
        IN  {IF response.Code = "ConditionalCheckFailedException"
             THEN Raises("ConditionalCheckError",
                         <<"Bond not found: bond_id=", bond.bond_id>>, response.table)
             ELSE IF response.Code \in ClientErrorCodes
             THEN Raises("RegistryClientError",
                         <<"Unexpected error querying the registry: ", response.Code>>,
                         response.table)
             ELSE IF response.Code # ""
             THEN Raises(response.Code, <<"Could not connect to the endpoint URL">>,
                         response.table)
             ELSE Returns(BondValue(bond), response.table)},
        table, f)

update_bond(table, bond, f) ==
    db_connector(
        LET response ==
                update_item(table, bond.bond_id,
                            [host_account_id |-> bond.host_account_id,
                             sub_account_id |-> bond.sub_account_id,
                             host_cost_center |-> bond.host_cost_center,
                             sub_cost_center |-> bond.sub_cost_center,
                             subscribers |-> jsonable_encoder(bond.subscribers)],
                            "attribute_exists(bond_id)", f)
        IN  {IF response.Code = "ConditionalCheckFailedException"
             THEN Raises("ConditionalCheckError",
                         <<"Bond not found: bond_id=", bond.bond_id>>, response.table)
             ELSE IF response.Code \in ClientErrorCodes
             THEN Raises("RegistryClientError",
                         <<"Unexpected error querying the registry: ", response.Code>>,
                         response.table)
             ELSE IF response.Code # ""
             THEN Raises(response.Code, <<"Could not connect to the endpoint URL">>,
                         response.table)
             ELSE Returns(BondValue(bond), response.table)},
        table, f)

\* delete_bond refusing to delete what is not there.
delete_bond_checked(table, bond_id, f) ==
    db_connector(
        LET response == delete_item(table, bond_id, f)
        IN  {IF response.Code \in ClientErrorCodes
             THEN Raises("RegistryClientError",
                         <<"Unexpected error querying the registry: ", response.Code>>,
                         response.table)
             ELSE IF response.Code # ""
             THEN Raises(response.Code, <<"Could not connect to the endpoint URL">>,
                         response.table)
             ELSE IF ItemsWithKey(table, bond_id) = {}
             THEN Raises("ConditionalCheckError",
                         <<"Bond not found: bond_id=", bond_id>>, response.table)
             ELSE Returns(NoneValue, response.table)},
        table, f)

delete_bond(table, bond_id, f) ==
    db_connector(
        LET response == delete_item(table, bond_id, f)
        IN  {IF response.Code \in ClientErrorCodes
             THEN Raises("RegistryClientError",
                         <<"Unexpected error querying the registry: ", response.Code>>,
                         response.table)
             ELSE IF response.Code # ""
             THEN Raises(response.Code, <<"Could not connect to the endpoint URL">>,
                         response.table)
             ELSE Returns(NoneValue, response.table)},
        table, f)

\* The response of the query, as a value of type "Response" holding Items.
execute_query(table, query_expr, f) ==
    db_connector(
        {IF response.Code \in ClientErrorCodes
         THEN Raises("RegistryClientError",
                     <<"Unexpected error querying the registry: ", response.Code>>, table)
         ELSE IF response.Code # ""
         THEN Raises(response.Code, <<"Could not connect to the endpoint URL">>, table)
         ELSE Returns([type |-> "Response", val |-> response.Items], table) :
            response \in
                IF "IndexName" \notin DOMAIN query_expr
                THEN query(table,
                           [KeyConditionExpression |-> query_expr.KeyConditionExpression], f)
                ELSE query(table,
                           [IndexName |-> query_expr.IndexName,
                            KeyConditionExpression |-> query_expr.KeyConditionExpression], f)},
        table, f)

get_bond(table, bond_id, f) ==
    {IF response.exc # "" THEN response
     ELSE IF Len(response.out.val) = 0 THEN Returns(NoneValue, response.table)
     ELSE Returns(BondValue(bond_from_item(response.out.val[1])), response.table) :
        response \in execute_query(table, [KeyConditionExpression |-> <<"bond_id", bond_id>>], f)}

\* for item in response['Items']: bonds.append(bond_from_item(item))
bonds_from_items(response) ==
    IF response.exc # "" THEN response
    ELSE Returns(ListValue([i \in 1..Len(response.out.val) |->
                                bond_from_item(response.out.val[i])]),
                 response.table)

get_bonds_by_host_cost_center(table, host_cost_center, f) ==
    {bonds_from_items(response) :
        response \in execute_query(table,
            [IndexName |-> "bond-host_cost_center-index",
             KeyConditionExpression |-> <<"host_cost_center", host_cost_center>>], f)}

get_bonds_by_host_account_id(table, host_account_id, f) ==
    {bonds_from_items(response) :
        response \in execute_query(table,
            [IndexName |-> "bond-host_account_id-index",
             KeyConditionExpression |-> <<"host_account_id", host_account_id>>], f)}

get_bonds_by_sub_cost_center(table, sub_cost_center, f) ==
    {bonds_from_items(response) :
        response \in execute_query(table,
            [IndexName |-> "bond-sub_cost_center-index",
             KeyConditionExpression |-> <<"sub_cost_center", sub_cost_center>>], f)}

\* get_bonds_by_sub_account_id querying the index of the host account id.
get_bonds_by_sub_account_id_wrong_index(table, sub_account_id, f) ==
    {bonds_from_items(response) :
        response \in execute_query(table,
            [IndexName |-> "bond-host_account_id-index",
             KeyConditionExpression |-> <<"host_account_id", sub_account_id>>], f)}

get_bonds_by_sub_account_id(table, sub_account_id, f) ==
    {bonds_from_items(response) :
        response \in execute_query(table,
            [IndexName |-> "bond-sub_account_id-index",
             KeyConditionExpression |-> <<"sub_account_id", sub_account_id>>], f)}

(***************************************************************************)
(* The callers.  A caller calls an operation, the operation runs its store *)
(* calls (one step each), and the caller takes what it handed back.        *)
(***************************************************************************)
Init ==
    /\ store = {}
    /\ pc = [p \in Procs |-> "idle"]
    /\ call = [p \in Procs |-> NoCall]
    /\ local = [p \in Procs |-> <<>>]
    /\ ret = [p \in Procs |-> NoRet]
    /\ pre = [p \in Procs |-> {}]
    /\ mid = [p \in Procs |-> {}]
    /\ fault = [p \in Procs |-> "none"]
    /\ post = [p \in Procs |-> {}]

\* The operation of p ends with outcome o.
Complete(p, o) ==
    /\ store' = o.table
    /\ pc' = [pc EXCEPT ![p] = "returned"]
    /\ ret' = [ret EXCEPT ![p] = [exc |-> o.exc, msg |-> o.msg, out |-> o.out]]
    /\ local' = [local EXCEPT ![p] = <<>>]
    /\ post' = [post EXCEPT ![p] = o.table]

\* Caller p's call c, an operation that is one store call, runs and meets f.
Run(p, c, f, outcomes) ==
    /\ call' = [call EXCEPT ![p] = c]
    /\ pre' = [pre EXCEPT ![p] = store]
    /\ mid' = [mid EXCEPT ![p] = store]
    /\ fault' = [fault EXCEPT ![p] = f]
    /\ \E o \in outcomes : Complete(p, o)

create_bond_call(p, bond, f) ==
    /\ pc[p] = "idle"
    /\ Run(p, Call("create_bond", <<bond>>), f,
           create_bond(store, bond, f))

update_bond_call(p, bond, f) ==
    /\ pc[p] = "idle"
    /\ Run(p, Call("update_bond", <<bond>>), f,
           update_bond(store, bond, f))

delete_bond_call(p, bond_id, f) ==
    /\ pc[p] = "idle"
    /\ Run(p, Call("delete_bond", <<bond_id>>), f,
           delete_bond(store, bond_id, f))

\* get_bond answering from a copy of the table kept in memory between the
\* calls: what the latest call of another caller left.
get_bond_call_cached(p, bond_id, f) ==
    /\ pc[p] = "idle"
    /\ Run(p, Call("get_bond", <<bond_id>>), f,
           {[o EXCEPT !.table = store] :
                o \in get_bond(post[CHOOSE q \in Procs : q # p], bond_id, f)})

get_bond_call(p, bond_id, f) ==
    /\ pc[p] = "idle"
    /\ Run(p, Call("get_bond", <<bond_id>>), f,
           get_bond(store, bond_id, f))

get_bonds_by_host_cost_center_call(p, host_cost_center, f) ==
    /\ pc[p] = "idle"
    /\ Run(p, Call("get_bonds_by_host_cost_center", <<host_cost_center>>), f,
           get_bonds_by_host_cost_center(store, host_cost_center, f))

get_bonds_by_host_account_id_call(p, host_account_id, f) ==
    /\ pc[p] = "idle"
    /\ Run(p, Call("get_bonds_by_host_account_id", <<host_account_id>>), f,
           get_bonds_by_host_account_id(store, host_account_id, f))

get_bonds_by_sub_cost_center_call(p, sub_cost_center, f) ==
    /\ pc[p] = "idle"
    /\ Run(p, Call("get_bonds_by_sub_cost_center", <<sub_cost_center>>), f,
           get_bonds_by_sub_cost_center(store, sub_cost_center, f))

get_bonds_by_sub_account_id_call(p, sub_account_id, f) ==
    /\ pc[p] = "idle"
    /\ Run(p, Call("get_bonds_by_sub_account_id", <<sub_account_id>>), f,
           get_bonds_by_sub_account_id(store, sub_account_id, f))

\* add_subscriber without the test for None: bond.add_subscriber fails on
\* None with an AttributeError.
add_subscriber_get_bond_unchecked(p, bond_id, sub, f) ==
    /\ pc[p] = "idle"
    /\ call' = [call EXCEPT ![p] = Call("add_subscriber", <<bond_id, sub>>)]
    /\ pre' = [pre EXCEPT ![p] = store]
    /\ mid' = [mid EXCEPT ![p] = store]
    /\ fault' = [fault EXCEPT ![p] = f]
    /\ \E o \in get_bond(store, bond_id, f) :
        IF o.exc # ""
        THEN Complete(p, o)
        ELSE IF o.out.type = "None"
        THEN Complete(p, Raises("AttributeError",
                                <<"'NoneType' object has no attribute 'add_subscriber'">>,
                                o.table))
        ELSE /\ store' = o.table
             /\ pc' = [pc EXCEPT ![p] = "update_bond"]
             /\ local' = [local EXCEPT ![p] = <<Bond_add_subscriber(o.out.val[1], sub)>>]
             /\ post' = [post EXCEPT ![p] = o.table]
             /\ UNCHANGED ret

\* add_subscriber up to bond.add_subscriber(sub): the read and the change
\* of the local bond.
add_subscriber_get_bond(p, bond_id, sub, f) ==
    /\ pc[p] = "idle"
    /\ call' = [call EXCEPT ![p] = Call("add_subscriber", <<bond_id, sub>>)]
    /\ pre' = [pre EXCEPT ![p] = store]
    /\ mid' = [mid EXCEPT ![p] = store]
    /\ fault' = [fault EXCEPT ![p] = f]
    /\ \E o \in get_bond(store, bond_id, f) :
        IF o.exc # ""
        THEN Complete(p, o)
        ELSE IF o.out.type = "None"
        THEN Complete(p, Raises("ConditionalCheckError",
                                <<"Bond ", bond_id, " not found. ",
                                  "Cannot add subscriber ", sub.sid, ".">>,
                                o.table))
        ELSE /\ store' = o.table
             /\ pc' = [pc EXCEPT ![p] = "update_bond"]
             /\ local' = [local EXCEPT ![p] = <<Bond_add_subscriber(o.out.val[1], sub)>>]
             /\ post' = [post EXCEPT ![p] = o.table]
             /\ UNCHANGED ret

\* add_subscriber reading the bond again at the write: the subscriber is put
\* into the mapping as stored then, not as read before.
add_subscriber_update_bond_reread(p, f) ==
    /\ pc[p] = "update_bond"
    /\ call[p].op = "add_subscriber"
    /\ mid' = [mid EXCEPT ![p] = store]
    /\ fault' = [fault EXCEPT ![p] = f]
    /\ \E g \in get_bond(store, call[p].args[1], f) :
        \E o \in update_bond(store,
                             IF g.exc = "" /\ g.out.type = "Bond"
                             THEN Bond_add_subscriber(g.out.val[1], call[p].args[2])
                             ELSE local[p][1],
                             f) :
            Complete(p, o)
    /\ UNCHANGED <<call, pre>>

\* add_subscriber trying its update_bond again for as long as the store
\* fails.
add_subscriber_update_bond_retry(p, f) ==
    /\ pc[p] = "update_bond"
    /\ call[p].op = "add_subscriber"
    /\ mid' = [mid EXCEPT ![p] = store]
    /\ fault' = [fault EXCEPT ![p] = f]
    /\ IF f = "none"
       THEN \E o \in update_bond(store, local[p][1], f) : Complete(p, o)
       ELSE UNCHANGED <<store, pc, ret, local, post>>
    /\ UNCHANGED <<call, pre>>

\* add_subscriber whose write, when the store fails it, has all the same put
\* the changed subscribers into the record.
add_subscriber_update_bond_partial(p, f) ==
    /\ pc[p] = "update_bond"
    /\ call[p].op = "add_subscriber"
    /\ mid' = [mid EXCEPT ![p] = store]
    /\ fault' = [fault EXCEPT ![p] = f]
    /\ \E o \in update_bond(store, local[p][1], f) :
        IF o.exc = "" \/ ItemsWithKey(store, local[p][1].bond_id) = {}
        THEN Complete(p, o)
        ELSE \E w \in update_bond(store, local[p][1], "none") :
                Complete(p, [o EXCEPT !.table = w.table])
    /\ UNCHANGED <<call, pre>>

\* return update_bond(bond)
add_subscriber_update_bond(p, f) ==
    /\ pc[p] = "update_bond"
    /\ call[p].op = "add_subscriber"
    /\ mid' = [mid EXCEPT ![p] = store]
    /\ fault' = [fault EXCEPT ![p] = f]
    /\ \E o \in update_bond(store, local[p][1], f) : Complete(p, o)
    /\ UNCHANGED <<call, pre>>

\* remove_subscriber returning the bond it read, without a write, when the
\* mapping has no key sid.
remove_subscriber_get_bond_short_circuit(p, bond_id, sid, f) ==
    /\ pc[p] = "idle"
    /\ call' = [call EXCEPT ![p] = Call("remove_subscriber", <<bond_id, sid>>)]
    /\ pre' = [pre EXCEPT ![p] = store]
    /\ mid' = [mid EXCEPT ![p] = store]
    /\ fault' = [fault EXCEPT ![p] = f]
    /\ \E o \in get_bond(store, bond_id, f) :
        IF o.exc # ""
        THEN Complete(p, o)
        ELSE IF o.out.type = "None"
        THEN Complete(p, Raises("ConditionalCheckError",
                                <<"Bond ", bond_id, " not found. ",
                                  "Cannot remove subscriber ", sid, ".">>,
                                o.table))
        ELSE IF sid \notin DOMAIN o.out.val[1].subscribers
        THEN Complete(p, o)
        ELSE /\ store' = o.table
             /\ pc' = [pc EXCEPT ![p] = "update_bond"]
             /\ local' = [local EXCEPT ![p] = <<Bond_remove_subscriber(o.out.val[1], sid)>>]
             /\ post' = [post EXCEPT ![p] = o.table]
             /\ UNCHANGED ret

\* remove_subscriber raising the error without naming the bond and the
\* subscriber.
remove_subscriber_get_bond_unnamed(p, bond_id, sid, f) ==
    /\ pc[p] = "idle"
    /\ call' = [call EXCEPT ![p] = Call("remove_subscriber", <<bond_id, sid>>)]
    /\ pre' = [pre EXCEPT ![p] = store]
    /\ mid' = [mid EXCEPT ![p] = store]
    /\ fault' = [fault EXCEPT ![p] = f]
    /\ \E o \in get_bond(store, bond_id, f) :
        IF o.exc # ""
        THEN Complete(p, o)
        ELSE IF o.out.type = "None"
        THEN Complete(p, Raises("ConditionalCheckError",
                                <<"Bond not found. Cannot remove subscriber.">>,
                                o.table))
        ELSE /\ store' = o.table
             /\ pc' = [pc EXCEPT ![p] = "update_bond"]
             /\ local' = [local EXCEPT ![p] = <<Bond_remove_subscriber(o.out.val[1], sid)>>]
             /\ post' = [post EXCEPT ![p] = o.table]
             /\ UNCHANGED ret

remove_subscriber_get_bond(p, bond_id, sid, f) ==
    /\ pc[p] = "idle"
    /\ call' = [call EXCEPT ![p] = Call("remove_subscriber", <<bond_id, sid>>)]
    /\ pre' = [pre EXCEPT ![p] = store]
    /\ mid' = [mid EXCEPT ![p] = store]
    /\ fault' = [fault EXCEPT ![p] = f]
    /\ \E o \in get_bond(store, bond_id, f) :
        IF o.exc # ""
        THEN Complete(p, o)
        ELSE IF o.out.type = "None"
        THEN Complete(p, Raises("ConditionalCheckError",
                                <<"Bond ", bond_id, " not found. ",
                                  "Cannot remove subscriber ", sid, ".">>,
                                o.table))
        ELSE /\ store' = o.table
             /\ pc' = [pc EXCEPT ![p] = "update_bond"]
             /\ local' = [local EXCEPT ![p] = <<Bond_remove_subscriber(o.out.val[1], sid)>>]
             /\ post' = [post EXCEPT ![p] = o.table]
             /\ UNCHANGED ret

\* return update_bond(bond)
remove_subscriber_update_bond(p, f) ==
    /\ pc[p] = "update_bond"
    /\ call[p].op = "remove_subscriber"
    /\ mid' = [mid EXCEPT ![p] = store]
    /\ fault' = [fault EXCEPT ![p] = f]
    /\ \E o \in update_bond(store, local[p][1], f) : Complete(p, o)
    /\ UNCHANGED <<call, pre>>

\* The caller has what the operation handed back and is free to call again.
TakeResult(p) ==
    /\ pc[p] = "returned"
    /\ pc' = [pc EXCEPT ![p] = "idle"]
    /\ call' = [call EXCEPT ![p] = NoCall]
    /\ ret' = [ret EXCEPT ![p] = NoRet]
    /\ pre' = [pre EXCEPT ![p] = {}]
    /\ mid' = [mid EXCEPT ![p] = {}]
    /\ fault' = [fault EXCEPT ![p] = "none"]
    /\ post' = [post EXCEPT ![p] = {}]
    /\ UNCHANGED <<store, local>>

\* One caller, the store available: the calls follow one another.
Next ==
    \/ \E bond \in Bonds : create_bond_call(1, bond, "none")
    \/ \E bond \in Bonds : update_bond_call(1, bond, "none")
    \/ \E bond_id \in BondIds : delete_bond_call(1, bond_id, "none")
    \/ \E bond_id \in BondIds : get_bond_call(1, bond_id, "none")
    \/ \E v \in Vals : get_bonds_by_host_cost_center_call(1, v, "none")
    \/ \E v \in Vals : get_bonds_by_host_account_id_call(1, v, "none")
    \/ \E v \in Vals : get_bonds_by_sub_cost_center_call(1, v, "none")
    \/ \E v \in Vals : get_bonds_by_sub_account_id_call(1, v, "none")
    \/ \E bond_id \in BondIds, sub \in Subscribers : add_subscriber_get_bond(1, bond_id, sub, "none")
    \/ add_subscriber_update_bond(1, "none")
    \/ \E bond_id \in BondIds, sid \in Sids : remove_subscriber_get_bond(1, bond_id, sid, "none")
    \/ remove_subscriber_update_bond(1, "none")
    \/ TakeResult(1)

Spec == Init /\ [][Next]_vars

\* The bonds and subscribers of the concurrent callers: one bond_id, so that
\* every call is about the same record.
ConcBondIds == {BondIdNames[1]}
ConcVals == {ValNames[1]}
ConcBonds ==
    {b \in Bonds : b.bond_id \in ConcBondIds /\ b.subscribers = <<>>
                    /\ \A a \in Attributes \ {"host_cost_center"} : b[a] = ValNames[1]}
ConcSubscribers == {sub \in Subscribers : sub.name = PersonNames[1]}

\* Several callers, the store available: each store call is one step, and
\* the steps of the callers interleave in every order.
NextConc ==
    \E p \in Procs :
        \/ \E bond \in ConcBonds : create_bond_call(p, bond, "none")
        \/ \E bond \in ConcBonds : update_bond_call(p, bond, "none")
        \/ \E bond_id \in ConcBondIds : delete_bond_call(p, bond_id, "none")
        \/ \E bond_id \in ConcBondIds : get_bond_call(p, bond_id, "none")
        \/ \E v \in ConcVals : get_bonds_by_host_cost_center_call(p, v, "none")
        \/ \E v \in ConcVals : get_bonds_by_host_account_id_call(p, v, "none")
        \/ \E v \in ConcVals : get_bonds_by_sub_cost_center_call(p, v, "none")
        \/ \E v \in ConcVals : get_bonds_by_sub_account_id_call(p, v, "none")
        \/ \E bond_id \in ConcBondIds, sub \in ConcSubscribers :
            add_subscriber_get_bond(p, bond_id, sub, "none")
        \/ add_subscriber_update_bond(p, "none")
        \/ \E bond_id \in ConcBondIds, sid \in Sids :
            remove_subscriber_get_bond(p, bond_id, sid, "none")
        \/ remove_subscriber_update_bond(p, "none")
        \/ TakeResult(p)

SpecConc == Init /\ [][NextConc]_vars

\* The bonds and subscribers of the caller whose store accesses may fail.
FaultBonds ==
    {b \in Bonds : b.subscribers = <<>>
                    /\ \A a \in Attributes \ {"host_cost_center"} : b[a] = ValNames[1]}
FaultSubscribers == {sub \in Subscribers : sub.name = PersonNames[1]}

\* One caller, and a store that may fail at any access of any call.
NextFault ==
    \E f \in Faults :
        \/ \E bond \in FaultBonds : create_bond_call(1, bond, f)
        \/ \E bond \in FaultBonds : update_bond_call(1, bond, f)
        \/ \E bond_id \in BondIds : delete_bond_call(1, bond_id, f)
        \/ \E bond_id \in BondIds : get_bond_call(1, bond_id, f)
        \/ \E v \in Vals : get_bonds_by_host_cost_center_call(1, v, f)
        \/ \E v \in Vals : get_bonds_by_host_account_id_call(1, v, f)
        \/ \E v \in Vals : get_bonds_by_sub_cost_center_call(1, v, f)
        \/ \E v \in Vals : get_bonds_by_sub_account_id_call(1, v, f)
        \/ \E bond_id \in BondIds, sub \in FaultSubscribers :
            add_subscriber_get_bond(1, bond_id, sub, f)
        \/ add_subscriber_update_bond(1, f)
        \/ \E bond_id \in BondIds, sid \in Sids : remove_subscriber_get_bond(1, bond_id, sid, f)
        \/ remove_subscriber_update_bond(1, f)
        \/ TakeResult(1)

SpecFault == Init /\ [][NextFault]_vars

\* The step that carries on the call of p that is between its read and its
\* write.
Continue(p) ==
    \E f \in Faults :
        \/ add_subscriber_update_bond(p, f)
        \/ remove_subscriber_update_bond(p, f)

\* The bond, the subscriber and the sid that the callers of NextLive use.
LiveBonds == {b \in ConcBonds : b.host_cost_center = ValNames[1]}
LiveSids == {SidNames[1]}
LiveSubscribers == {sub \in ConcSubscribers : sub.sid \in LiveSids}

\* Several callers, and a store that may fail at any access of any call.
NextLive ==
    \E p \in Procs, f \in Faults :
        \/ \E bond \in LiveBonds : create_bond_call(p, bond, f)
        \/ \E bond \in LiveBonds : update_bond_call(p, bond, f)
        \/ \E bond_id \in ConcBondIds : delete_bond_call(p, bond_id, f)
        \/ \E bond_id \in ConcBondIds : get_bond_call(p, bond_id, f)
        \/ \E v \in ConcVals : get_bonds_by_host_cost_center_call(p, v, f)
        \/ \E v \in ConcVals : get_bonds_by_host_account_id_call(p, v, f)
        \/ \E v \in ConcVals : get_bonds_by_sub_cost_center_call(p, v, f)
        \/ \E v \in ConcVals : get_bonds_by_sub_account_id_call(p, v, f)
        \/ \E bond_id \in ConcBondIds, sub \in LiveSubscribers :
            add_subscriber_get_bond(p, bond_id, sub, f)
        \/ add_subscriber_update_bond(p, f)
        \/ \E bond_id \in ConcBondIds, sid \in LiveSids :
            remove_subscriber_get_bond(p, bond_id, sid, f)
        \/ remove_subscriber_update_bond(p, f)
        \/ TakeResult(p)

\* A call that has begun is carried on: its thread runs, and each store call
\* it makes returns or fails.
SpecLive == Init /\ [][NextLive]_vars /\ \A p \in Procs : WF_vars(Continue(p))

(***************************************************************************)
(* registry/crud.py: add_subscriber and remove_subscriber run without      *)
(* another caller between their read and their write; f is the fault the   *)
(* read meets and g the fault the write meets.                             *)
(***************************************************************************)
add_subscriber(table, bond_id, sub, f, g) ==
    UNION {IF bond.exc # "" THEN {bond}
           ELSE IF bond.out.type = "None"
           THEN {Raises("ConditionalCheckError",
                        <<"Bond ", bond_id, " not found. ",
                          "Cannot add subscriber ", sub.sid, ".">>,
                        bond.table)}
           ELSE update_bond(bond.table, Bond_add_subscriber(bond.out.val[1], sub), g) :
                bond \in get_bond(table, bond_id, f)}

remove_subscriber(table, bond_id, sid, f, g) ==
    UNION {IF bond.exc # "" THEN {bond}
           ELSE IF bond.out.type = "None"
           THEN {Raises("ConditionalCheckError",
                        <<"Bond ", bond_id, " not found. ",
                          "Cannot remove subscriber ", sid, ".">>,
                        bond.table)}
           ELSE update_bond(bond.table, Bond_remove_subscriber(bond.out.val[1], sid), g) :
                bond \in get_bond(table, bond_id, f)}

(***************************************************************************)
(* registry/main.py: the handlers of the REST API.  A handler maps the     *)
(* table, the parameters of the request and the faults its store calls     *)
(* meet to the set of its possible outcomes: the value it returns, the     *)
(* HTTPException it raises, or the exception it lets through.              *)
(***************************************************************************)
HTTPException(status_code, detail, table) ==
    Raises(IF status_code = 400 THEN "HTTPException(400)" ELSE "HTTPException(500)",
           detail, table)

\* The status of the response: 200 for a returned value, the status_code of
\* an HTTPException, and 500 (the server's answer to an exception no handler
\* caught) for any other exception.
status_code(response) ==
    IF response.exc = "" THEN 200
    ELSE IF response.exc = "HTTPException(400)" THEN 400
    ELSE 500

\* bond.dict(): every field, given by the request body or not.
Bond_dict_all(self, fields_set) ==
    [k \in ItemFields |->
        IF k = "subscribers" THEN jsonable_encoder(self.subscribers) ELSE self[k]]

\* bond.dict(exclude_unset=True): the fields the request body gave, the
\* subscribers as plain mappings.
Bond_dict(self, fields_set) ==
    [k \in fields_set |->
        IF k = "subscribers" THEN jsonable_encoder(self.subscribers) ELSE self[k]]

\* self.copy(update=update): the fields of update replace those of self.
Bond_copy(self, update) ==
    [k \in DOMAIN self |-> IF k \in DOMAIN update THEN update[k] ELSE self[k]]

\* get_bonds looking at cost_center_id first: the account id is used only
\* when no cost center is given.
main_get_bonds_cost_center_first(table, cost_center_id, account_id, by_host, f) ==
    {IF bonds.exc = "RegistryClientError"
     THEN HTTPException(500, bonds.msg, bonds.table)
     ELSE bonds :
        bonds \in
            IF by_host
            THEN IF cost_center_id = None
                 THEN get_bonds_by_host_account_id(table, account_id, f)
                 ELSE get_bonds_by_host_cost_center(table, cost_center_id, f)
            ELSE IF cost_center_id = None
                 THEN get_bonds_by_sub_account_id(table, account_id, f)
                 ELSE get_bonds_by_sub_cost_center(table, cost_center_id, f)}

main_get_bonds(table, cost_center_id, account_id, by_host, f) ==
    {IF bonds.exc = "RegistryClientError"
     THEN HTTPException(500, bonds.msg, bonds.table)
     ELSE bonds :
        bonds \in
            IF by_host
            THEN IF account_id # None
                 THEN get_bonds_by_host_account_id(table, account_id, f)
                 ELSE get_bonds_by_host_cost_center(table, cost_center_id, f)
            ELSE IF account_id # None
                 THEN get_bonds_by_sub_account_id(table, account_id, f)
                 ELSE get_bonds_by_sub_cost_center(table, cost_center_id, f)}

main_get_bond(table, bond_id, f) ==
    {IF bond.exc = "RegistryClientError"
     THEN HTTPException(500, bond.msg, bond.table)
     ELSE IF bond.exc # "" THEN bond
     ELSE IF bond.out.type = "None"
     THEN HTTPException(400, <<"Bond ", bond_id, " not found.">>, bond.table)
     ELSE bond :
        bond \in get_bond(table, bond_id, f)}

\* create_bond answering 500 to a bond that already exists.
main_create_bond_500(table, bond, f) ==
    {IF new_bond.exc \in {"ConditionalCheckError", "RegistryClientError"}
     THEN HTTPException(500, new_bond.msg, new_bond.table)
     ELSE new_bond :
        new_bond \in create_bond(table, bond, f)}

main_create_bond(table, bond, f) ==
    {IF new_bond.exc = "ConditionalCheckError"
     THEN HTTPException(400, new_bond.msg, new_bond.table)
     ELSE IF new_bond.exc = "RegistryClientError"
     THEN HTTPException(500, new_bond.msg, new_bond.table)
     ELSE new_bond :
        new_bond \in create_bond(table, bond, f)}

\* fields_set: the fields the request body gave (bond.__fields_set__); f is
\* the fault crud.get_bond meets and g the fault crud.update_bond meets.
main_update_bond(table, bond_id, bond, fields_set, f, g) ==
    UNION {IF stored_bond.exc = "RegistryClientError"
           THEN {HTTPException(500, stored_bond.msg, stored_bond.table)}
           ELSE IF stored_bond.exc # "" THEN {stored_bond}
           ELSE IF stored_bond.out.type = "None"
           THEN {HTTPException(400, <<"Bond ", bond_id, " not found.">>, stored_bond.table)}
           ELSE LET update_data == Bond_dict(bond, fields_set)
                    updated_bond == Bond_copy(stored_bond.out.val[1], update_data)
                IN  {IF new_bond.exc = "ConditionalCheckError"
                     THEN HTTPException(400, new_bond.msg, new_bond.table)
                     ELSE IF new_bond.exc = "RegistryClientError"
                     THEN HTTPException(500, new_bond.msg, new_bond.table)
                     ELSE new_bond :
                        new_bond \in update_bond(stored_bond.table, updated_bond, g)} :
                stored_bond \in get_bond(table, bond_id, f)}

main_delete_bond(table, bond_id, f) ==
    {IF o.exc = "RegistryClientError"
     THEN HTTPException(500, o.msg, o.table)
     ELSE o :
        o \in delete_bond(table, bond_id, f)}

main_add_subscriber(table, bond_id, sub, f, g) ==
    {IF bond.exc = "ConditionalCheckError"
     THEN HTTPException(400, bond.msg, bond.table)
     ELSE IF bond.exc = "RegistryClientError"
     THEN HTTPException(500, bond.msg, bond.table)
     ELSE bond :
        bond \in add_subscriber(table, bond_id, sub, f, g)}

main_remove_subscriber(table, bond_id, sid, f, g) ==
    {IF bond.exc = "ConditionalCheckError"
     THEN HTTPException(400, bond.msg, bond.table)
     ELSE IF bond.exc = "RegistryClientError"
     THEN HTTPException(500, bond.msg, bond.table)
     ELSE bond :
        bond \in remove_subscriber(table, bond_id, sid, f, g)}

(***************************************************************************)
(* A request to the REST API is one step: the handler runs from the        *)
(* request to the response.  Of the faults f and g of a handler with two   *)
(* store calls at most one is met, and fault[p] records it.                *)
(***************************************************************************)
FaultMet(f, g) == IF f # "none" THEN f ELSE g

main_get_bonds_call(p, cost_center_id, account_id, by_host, f) ==
    /\ pc[p] = "idle"
    /\ Run(p, Call("main.get_bonds", <<cost_center_id, account_id, by_host>>), f,
           main_get_bonds(store, cost_center_id, account_id, by_host, f))

main_get_bond_call(p, bond_id, f) ==
    /\ pc[p] = "idle"
    /\ Run(p, Call("main.get_bond", <<bond_id>>), f,
           main_get_bond(store, bond_id, f))

main_create_bond_call(p, bond, f) ==
    /\ pc[p] = "idle"
    /\ Run(p, Call("main.create_bond", <<bond>>), f,
           main_create_bond(store, bond, f))

main_update_bond_call(p, bond_id, bond, fields_set, f, g) ==
    /\ pc[p] = "idle"
    /\ f # "none" => g = "none"
    /\ Run(p, Call("main.update_bond", <<bond_id, bond, fields_set>>), FaultMet(f, g),
           main_update_bond(store, bond_id, bond, fields_set, f, g))

main_delete_bond_call(p, bond_id, f) ==
    /\ pc[p] = "idle"
    /\ Run(p, Call("main.delete_bond", <<bond_id>>), f,
           main_delete_bond(store, bond_id, f))

main_add_subscriber_call(p, bond_id, sub, f, g) ==
    /\ pc[p] = "idle"
    /\ f # "none" => g = "none"
    /\ Run(p, Call("main.add_subscriber", <<bond_id, sub>>), FaultMet(f, g),
           main_add_subscriber(store, bond_id, sub, f, g))

main_remove_subscriber_call(p, bond_id, sid, f, g) ==
    /\ pc[p] = "idle"
    /\ f # "none" => g = "none"
    /\ Run(p, Call("main.remove_subscriber", <<bond_id, sid>>), FaultMet(f, g),
           main_remove_subscriber(store, bond_id, sid, f, g))

\* The bodies and parameters of the requests.
HttpBonds == {b \in Bonds : b.subscribers = <<>>}
HttpSubscribers == {sub \in Subscribers : sub.name = PersonNames[1]}
HttpFieldsSets == {ItemFields, ItemFields \ {"subscribers"}}
OptionalVals == Vals \cup {None}

\* One client of the REST API, and a store that may fail at any access.
NextHttp ==
    \/ \E f \in Faults, cost_center_id, account_id \in OptionalVals, by_host \in BOOLEAN :
        main_get_bonds_call(1, cost_center_id, account_id, by_host, f)
    \/ \E f \in Faults, bond_id \in BondIds : main_get_bond_call(1, bond_id, f)
    \/ \E f \in Faults, bond \in HttpBonds : main_create_bond_call(1, bond, f)
    \/ \E f, g \in Faults, bond_id \in BondIds, bond \in HttpBonds, fields_set \in HttpFieldsSets :
        main_update_bond_call(1, bond_id, bond, fields_set, f, g)
    \/ \E f \in Faults, bond_id \in BondIds : main_delete_bond_call(1, bond_id, f)
    \/ \E f, g \in Faults, bond_id \in BondIds, sub \in HttpSubscribers :
        main_add_subscriber_call(1, bond_id, sub, f, g)
    \/ \E f, g \in Faults, bond_id \in BondIds, sid \in Sids :
        main_remove_subscriber_call(1, bond_id, sid, f, g)
    \/ TakeResult(1)

SpecHttp == Init /\ [][NextHttp]_vars

(***************************************************************************)
(* Vocabulary of the properties.                                           *)
(***************************************************************************)
Returned(p, op) == pc[p] = "returned" /\ call[p].op = op

\* The store itself failed during the call (RegistryClientError).
StoreFailed(p) == ret[p].exc = "RegistryClientError"

ItemAttributes ==
    {"bond_id", "host_account_id", "sub_account_id", "host_cost_center",
     "sub_cost_center", "subscribers"}

\* Mapping m (of stored entries or of Subscriber objects) has the keys of
\* mapping n and, under each key, the sid, name and email n has there.
SameSubscribers(m, n) ==
    /\ DOMAIN m = DOMAIN n
    /\ \A k \in DOMAIN m :
        /\ m[k].sid = n[k].sid
        /\ m[k].name = n[k].name
        /\ m[k].email = n[k].email

\* x and y (stored items or Bond objects) agree on the four attributes.
SameAttributes(x, y) == \A a \in Attributes : x[a] = y[a]

\* x and y (stored items or Bond objects) agree on all six fields.
SameBond(x, y) ==
    /\ x.bond_id = y.bond_id
    /\ SameAttributes(x, y)
    /\ SameSubscribers(x.subscribers, y.subscribers)

\* The stored item with the given key, where there is one.
ItemOf(table, bond_id) == CHOOSE it \in ItemsWithKey(table, bond_id) : TRUE

Present(table, bond_id) == ItemsWithKey(table, bond_id) # {}

(***************************************************************************)
(* C1  Create-uniqueness.                                                  *)
(***************************************************************************)
\* C1: a create_bond call made while a record with the bond's bond_id is
\* stored raises ConditionalCheckError (bond already exists) unless the store
\* itself failed, never succeeds, and leaves the table, and so all six fields
\* of the stored record, as they were, whatever fields the bond carries.
C1_CreateUniqueness ==
    \A p \in Procs :
        (Returned(p, "create_bond") /\ Present(pre[p], call[p].args[1].bond_id)) =>
            /\ ret[p].exc # ""
            /\ ~StoreFailed(p) => ret[p].exc = "ConditionalCheckError"
            /\ ItemsWithKey(post[p], call[p].args[1].bond_id)
                = ItemsWithKey(pre[p], call[p].args[1].bond_id)
            /\ post[p] = pre[p]

\* A create_bond was refused for a bond whose fields differ from the stored ones.
C1_Witness ==
    \E p \in Procs :
        /\ Returned(p, "create_bond")
        /\ Present(pre[p], call[p].args[1].bond_id)
        /\ ret[p].exc = "ConditionalCheckError"
        /\ ~SameAttributes(ItemOf(pre[p], call[p].args[1].bond_id), call[p].args[1])
        /\ ItemOf(post[p], call[p].args[1].bond_id)
            = ItemOf(pre[p], call[p].args[1].bond_id)

(***************************************************************************)
(* C3  Update-requires-existence.                                          *)
(***************************************************************************)
\* C3: an update_bond call for a bond whose bond_id has no stored record
\* raises ConditionalCheckError (bond not found) unless the store itself
\* failed, never succeeds, and writes nothing: the table is as it was and
\* holds no record with that bond_id.
C3_UpdateRequiresExistence ==
    \A p \in Procs :
        (Returned(p, "update_bond") /\ ~Present(pre[p], call[p].args[1].bond_id)) =>
            /\ ret[p].exc # ""
            /\ ~StoreFailed(p) => ret[p].exc = "ConditionalCheckError"
            /\ post[p] = pre[p]
            /\ ~Present(post[p], call[p].args[1].bond_id)

\* An update_bond was refused for an absent bond while another bond is stored.
C3_Witness ==
    \E p \in Procs :
        /\ Returned(p, "update_bond")
        /\ ~Present(pre[p], call[p].args[1].bond_id)
        /\ ret[p].exc = "ConditionalCheckError"
        /\ pre[p] # {}
        /\ post[p] = pre[p]

(***************************************************************************)
(* C4  update_bond overwrites the five non-key fields.                     *)
(***************************************************************************)
\* C4: an update_bond call for a bond whose bond_id has a stored record
\* succeeds unless the store itself failed, returns the given bond, and
\* leaves exactly one record with that bond_id, whose five non-key fields
\* are those of the given bond.
C4_UpdateOverwrites ==
    \A p \in Procs :
        (Returned(p, "update_bond") /\ Present(pre[p], call[p].args[1].bond_id)
         /\ ~StoreFailed(p)) =>
            /\ ret[p].exc = ""
            /\ ret[p].out = BondValue(call[p].args[1])
            /\ Cardinality(ItemsWithKey(post[p], call[p].args[1].bond_id)) = 1
            /\ \A it \in ItemsWithKey(post[p], call[p].args[1].bond_id) :
                /\ DOMAIN it = ItemAttributes
                /\ SameBond(it, call[p].args[1])

\* An update_bond succeeded on a record that differed from the given bond in
\* an attribute and in its subscribers.
C4_Witness ==
    \E p \in Procs :
        /\ Returned(p, "update_bond")
        /\ Present(pre[p], call[p].args[1].bond_id)
        /\ ret[p].exc = ""
        /\ ~SameAttributes(ItemOf(pre[p], call[p].args[1].bond_id), call[p].args[1])
        /\ ~SameSubscribers(ItemOf(pre[p], call[p].args[1].bond_id).subscribers,
                            call[p].args[1].subscribers)
        /\ SameBond(ItemOf(post[p], call[p].args[1].bond_id), call[p].args[1])

(***************************************************************************)
(* C5  Delete-idempotence.                                                 *)
(***************************************************************************)
\* C5: a delete_bond call never raises ConditionalCheckError, and unless the
\* store itself failed it succeeds whether or not the record is stored and
\* leaves no record with that bond_id; when no such record was stored (as
\* after an earlier delete_bond of it) the call leaves the table as it was.
C5_DeleteIdempotent ==
    \A p \in Procs :
        Returned(p, "delete_bond") =>
            /\ ret[p].exc # "ConditionalCheckError"
            /\ ~StoreFailed(p) =>
                /\ ret[p].exc = ""
                /\ ret[p].out = NoneValue
                /\ ~Present(post[p], call[p].args[1])
            /\ ~Present(pre[p], call[p].args[1]) => post[p] = pre[p]

\* A delete_bond of a bond_id with no record succeeded in a table that holds
\* another record.
C5_Witness ==
    \E p \in Procs :
        /\ Returned(p, "delete_bond")
        /\ ~Present(pre[p], call[p].args[1])
        /\ pre[p] # {}
        /\ ret[p].exc = ""
        /\ post[p] = pre[p]

(***************************************************************************)
(* C6  get_bond.                                                           *)
(***************************************************************************)
\* C6: a get_bond call never changes the table; unless the store itself
\* failed it raises nothing and returns None when no record has the bond_id,
\* and otherwise a Bond whose six fields are those of the stored record.
C6_GetBond ==
    \A p \in Procs :
        Returned(p, "get_bond") =>
            /\ post[p] = pre[p]
            /\ ~StoreFailed(p) =>
                /\ ret[p].exc = ""
                /\ IF Present(pre[p], call[p].args[1])
                   THEN /\ ret[p].out.type = "Bond"
                        /\ \E it \in ItemsWithKey(pre[p], call[p].args[1]) :
                            SameBond(ret[p].out.val[1], it)
                        /\ \A k \in DOMAIN ret[p].out.val[1].subscribers :
                            ret[p].out.val[1].subscribers[k].cls = "Subscriber"
                   ELSE ret[p].out = NoneValue

\* A get_bond returned a stored bond that has subscribers.
C6_Witness ==
    \E p \in Procs :
        /\ Returned(p, "get_bond")
        /\ ret[p].exc = ""
        /\ ret[p].out.type = "Bond"
        /\ DOMAIN ret[p].out.val[1].subscribers # {}
        /\ ~SameAttributes(ret[p].out.val[1], [a \in Attributes |-> ValNames[1]])

(***************************************************************************)
(* C7  Index query completeness.                                           *)
(***************************************************************************)
IndexQueries ==
    {"get_bonds_by_host_cost_center", "get_bonds_by_host_account_id",
     "get_bonds_by_sub_cost_center", "get_bonds_by_sub_account_id"}

\* The attribute each of the four list queries is about.
QueriedAttribute(op) ==
    CASE op = "get_bonds_by_host_cost_center" -> "host_cost_center"
      [] op = "get_bonds_by_host_account_id" -> "host_account_id"
      [] op = "get_bonds_by_sub_cost_center" -> "sub_cost_center"
      [] op = "get_bonds_by_sub_account_id" -> "sub_account_id"

\* The stored items whose attribute a is v.
Matching(table, a, v) == {it \in table : it[a] = v}

\* C7: each of the four get_bonds_by_* calls leaves the table as it was and,
\* unless the store itself failed, raises nothing and returns a list that
\* holds, once each, exactly the stored bonds whose attribute of that query
\* (and no other attribute) equals the value asked for: the empty list when
\* there is none.
C7_IndexQueryComplete ==
    \A p \in Procs :
        (pc[p] = "returned" /\ call[p].op \in IndexQueries) =>
            /\ post[p] = pre[p]
            /\ ~StoreFailed(p) =>
                LET found == ret[p].out.val
                    wanted == Matching(pre[p], QueriedAttribute(call[p].op), call[p].args[1])
                IN  /\ ret[p].exc = ""
                    /\ ret[p].out.type = "List"
                    /\ Len(found) = Cardinality(wanted)
                    /\ \A i \in 1..Len(found) : \E it \in wanted : SameBond(found[i], it)
                    /\ \A it \in wanted : \E i \in 1..Len(found) : SameBond(found[i], it)

\* A list query returned one bond and left out a stored bond that has the
\* value asked for in another attribute.
C7_Witness ==
    \E p \in Procs :
        /\ pc[p] = "returned"
        /\ call[p].op \in IndexQueries
        /\ ret[p].exc = ""
        /\ Len(ret[p].out.val) = 1
        /\ \E it \in pre[p] :
            /\ it[QueriedAttribute(call[p].op)] # call[p].args[1]
            /\ \E a \in Attributes : it[a] = call[p].args[1]

(***************************************************************************)
(* C8, C9  add_subscriber, one caller at a time.                           *)
(***************************************************************************)
\* An add_subscriber call of p has returned, its bond was stored when it read.
Added(p) == Returned(p, "add_subscriber") /\ Present(pre[p], call[p].args[1])

\* C8: with no other caller writing in between, an add_subscriber call for a
\* stored bond whose subscribers mapping already has the key sub.sid
\* succeeds unless the store itself failed, and leaves the record with the
\* name and email of sub under that key, every other entry, the four
\* attributes and the bond_id as they were, and as many subscribers as before.
C8_AddOverwrites ==
    \A p \in Procs :
        (Added(p) /\ ~StoreFailed(p)
         /\ call[p].args[2].sid \in DOMAIN ItemOf(pre[p], call[p].args[1]).subscribers) =>
            LET old == ItemOf(pre[p], call[p].args[1])
                sub == call[p].args[2]
            IN  /\ ret[p].exc = ""
                /\ Cardinality(ItemsWithKey(post[p], call[p].args[1])) = 1
                /\ \A new \in ItemsWithKey(post[p], call[p].args[1]) :
                    /\ DOMAIN new.subscribers = DOMAIN old.subscribers
                    /\ Cardinality(DOMAIN new.subscribers)
                        = Cardinality(DOMAIN old.subscribers)
                    /\ new.subscribers[sub.sid].sid = sub.sid
                    /\ new.subscribers[sub.sid].name = sub.name
                    /\ new.subscribers[sub.sid].email = sub.email
                    /\ \A k \in DOMAIN old.subscribers \ {sub.sid} :
                        new.subscribers[k] = old.subscribers[k]
                    /\ SameAttributes(new, old)

\* An add_subscriber replaced the name and email of an entry that has a sibling.
C8_Witness ==
    \E p \in Procs :
        /\ Added(p)
        /\ ret[p].exc = ""
        /\ LET old == ItemOf(pre[p], call[p].args[1])
               new == ItemOf(post[p], call[p].args[1])
               sub == call[p].args[2]
           IN  /\ sub.sid \in DOMAIN old.subscribers
               /\ old.subscribers[sub.sid].name # sub.name
               /\ old.subscribers[sub.sid].email # sub.email
               /\ DOMAIN old.subscribers # {sub.sid}
               /\ new.subscribers[sub.sid].name = sub.name
               /\ ~SameAttributes(old, [a \in Attributes |-> ValNames[1]])

\* C9: with no other caller writing in between, an add_subscriber call for a
\* stored bond whose subscribers mapping has no key sub.sid succeeds unless
\* the store itself failed, and leaves the record with the former mapping
\* plus the one entry sub.sid -> sub: one subscriber more, the former
\* entries, the four attributes and the bond_id as they were.
C9_AddInserts ==
    \A p \in Procs :
        (Added(p) /\ ~StoreFailed(p)
         /\ call[p].args[2].sid \notin DOMAIN ItemOf(pre[p], call[p].args[1]).subscribers) =>
            LET old == ItemOf(pre[p], call[p].args[1])
                sub == call[p].args[2]
            IN  /\ ret[p].exc = ""
                /\ Cardinality(ItemsWithKey(post[p], call[p].args[1])) = 1
                /\ \A new \in ItemsWithKey(post[p], call[p].args[1]) :
                    /\ DOMAIN new.subscribers = DOMAIN old.subscribers \cup {sub.sid}
                    /\ Cardinality(DOMAIN new.subscribers)
                        = Cardinality(DOMAIN old.subscribers) + 1
                    /\ new.subscribers[sub.sid].sid = sub.sid
                    /\ new.subscribers[sub.sid].name = sub.name
                    /\ new.subscribers[sub.sid].email = sub.email
                    /\ \A k \in DOMAIN old.subscribers :
                        new.subscribers[k] = old.subscribers[k]
                    /\ SameAttributes(new, old)

\* An add_subscriber put a new entry beside an existing one.
C9_Witness ==
    \E p \in Procs :
        /\ Added(p)
        /\ ret[p].exc = ""
        /\ LET old == ItemOf(pre[p], call[p].args[1])
               new == ItemOf(post[p], call[p].args[1])
               sub == call[p].args[2]
           IN  /\ sub.sid \notin DOMAIN old.subscribers
               /\ DOMAIN old.subscribers # {}
               /\ DOMAIN new.subscribers = DOMAIN old.subscribers \cup {sub.sid}
               /\ ~SameAttributes(old, [a \in Attributes |-> ValNames[1]])

(***************************************************************************)
(* C10  Subscriber operations on an absent bond.                           *)
(***************************************************************************)
\* C10: an add_subscriber or remove_subscriber call whose bond_id had no
\* stored record when it read never reaches its update_bond, raises
\* ConditionalCheckError (bond not found) unless the store itself failed,
\* and leaves the table as it was, with no record for that bond_id.
C10_SubscriberOpsNeedBond ==
    \A p \in Procs :
        (call[p].op \in {"add_subscriber", "remove_subscriber"}
         /\ ~Present(pre[p], call[p].args[1])) =>
            /\ pc[p] = "returned"
            /\ local[p] = <<>>
            /\ ret[p].exc # ""
            /\ ~StoreFailed(p) => ret[p].exc = "ConditionalCheckError"
            /\ post[p] = pre[p]
            /\ ~Present(post[p], call[p].args[1])

\* A remove_subscriber was refused for an absent bond while another bond is stored.
C10_Witness ==
    \E p \in Procs :
        /\ Returned(p, "remove_subscriber")
        /\ ~Present(pre[p], call[p].args[1])
        /\ pre[p] # {}
        /\ ret[p].exc = "ConditionalCheckError"
        /\ post[p] = pre[p]

(***************************************************************************)
(* C2  Two callers create the same bond_id.                                *)
(***************************************************************************)
\* C2: when two callers have each run create_bond with the same bond_id,
\* the id had no record before the first of the two puts and the second put
\* met the table as the first left it (no delete in between), then unless
\* the store itself failed the first call succeeded with its bond, the second
\* raised ConditionalCheckError (bond already exists) and changed nothing, and
\* the one record of the id in the table after both puts is the bond of the
\* first: whichever caller's put came first, and whatever the other steps of
\* the callers were.
C2_CreateRace ==
    \A p, q \in Procs :
        (/\ p # q
         /\ Returned(p, "create_bond") /\ Returned(q, "create_bond")
         /\ call[p].args[1].bond_id = call[q].args[1].bond_id
         /\ ~Present(pre[p], call[p].args[1].bond_id)
         /\ pre[q] = post[p]
         /\ ~StoreFailed(p) /\ ~StoreFailed(q)) =>
            /\ ret[p].exc = ""
            /\ ret[p].out = BondValue(call[p].args[1])
            /\ ret[q].exc = "ConditionalCheckError"
            /\ post[q] = post[p]
            /\ Cardinality(ItemsWithKey(post[q], call[p].args[1].bond_id)) = 1
            /\ \A it \in ItemsWithKey(post[q], call[p].args[1].bond_id) :
                SameBond(call[p].args[1], it)

\* Two callers created the same bond_id with different bonds, the second
\* caller's put coming first: the second won, the first was refused.
C2_Witness ==
    /\ Returned(1, "create_bond") /\ Returned(2, "create_bond")
    /\ call[1].args[1].bond_id = call[2].args[1].bond_id
    /\ call[1].args[1] # call[2].args[1]
    /\ ~Present(pre[2], call[2].args[1].bond_id)
    /\ pre[1] = post[2]
    /\ ret[2].exc = ""
    /\ ret[1].exc = "ConditionalCheckError"
    /\ \E it \in post[1] : SameBond(call[2].args[1], it)

(***************************************************************************)
(* C11, C12  remove_subscriber, one caller at a time.                      *)
(***************************************************************************)
\* A remove_subscriber call of p has returned, its bond was stored when it read.
Removed(p) == Returned(p, "remove_subscriber") /\ Present(pre[p], call[p].args[1])

\* C11: with no other caller writing in between, a remove_subscriber call
\* for a stored bond whose subscribers mapping has no key sid succeeds
\* unless the store itself failed, returns the bond as stored, and leaves the
\* record (its subscribers mapping, its four attributes, its bond_id) and
\* the rest of the table as they were.
C11_RemoveNoOp ==
    \A p \in Procs :
        (Removed(p) /\ ~StoreFailed(p)
         /\ call[p].args[2] \notin DOMAIN ItemOf(pre[p], call[p].args[1]).subscribers) =>
            LET old == ItemOf(pre[p], call[p].args[1])
            IN  /\ ret[p].exc = ""
                /\ ret[p].out.type = "Bond"
                /\ SameBond(ret[p].out.val[1], old)
                /\ Cardinality(ItemsWithKey(post[p], call[p].args[1])) = 1
                /\ \A new \in ItemsWithKey(post[p], call[p].args[1]) :
                    /\ new.subscribers = old.subscribers
                    /\ SameAttributes(new, old)
                /\ post[p] = pre[p]

\* A remove_subscriber of a sid that is no key left a non-empty mapping alone.
C11_Witness ==
    \E p \in Procs :
        /\ Removed(p)
        /\ ret[p].exc = ""
        /\ LET old == ItemOf(pre[p], call[p].args[1])
               new == ItemOf(post[p], call[p].args[1])
           IN  /\ call[p].args[2] \notin DOMAIN old.subscribers
               /\ DOMAIN old.subscribers # {}
               /\ new.subscribers = old.subscribers

\* C12: with no other caller writing in between, a remove_subscriber call
\* for a stored bond whose subscribers mapping has the key sid succeeds
\* unless the store itself failed, and leaves the record in place with the
\* former mapping less the key sid: one entry fewer, the other entries, the
\* four attributes and the bond_id as they were.
C12_RemoveDeletes ==
    \A p \in Procs :
        (Removed(p) /\ ~StoreFailed(p)
         /\ call[p].args[2] \in DOMAIN ItemOf(pre[p], call[p].args[1]).subscribers) =>
            LET old == ItemOf(pre[p], call[p].args[1])
                sid == call[p].args[2]
            IN  /\ ret[p].exc = ""
                /\ Cardinality(ItemsWithKey(post[p], call[p].args[1])) = 1
                /\ \A new \in ItemsWithKey(post[p], call[p].args[1]) :
                    /\ DOMAIN new.subscribers = DOMAIN old.subscribers \ {sid}
                    /\ Cardinality(DOMAIN new.subscribers) + 1
                        = Cardinality(DOMAIN old.subscribers)
                    /\ \A k \in DOMAIN new.subscribers :
                        new.subscribers[k] = old.subscribers[k]
                    /\ SameAttributes(new, old)

\* A remove_subscriber took one of two entries away and left the other.
C12_Witness ==
    \E p \in Procs :
        /\ Removed(p)
        /\ ret[p].exc = ""
        /\ LET old == ItemOf(pre[p], call[p].args[1])
               new == ItemOf(post[p], call[p].args[1])
           IN  /\ call[p].args[2] \in DOMAIN old.subscribers
               /\ DOMAIN old.subscribers # {call[p].args[2]}
               /\ DOMAIN new.subscribers = DOMAIN old.subscribers \ {call[p].args[2]}
               /\ DOMAIN new.subscribers # {}

(***************************************************************************)
(* C13  The lost update of two subscriber operations.                      *)
(***************************************************************************)
SubscriberOps == {"add_subscriber", "remove_subscriber"}

\* What the subscriber operation of call c does to the bond it read.
Effect(c, bond) ==
    IF c.op = "add_subscriber"
    THEN Bond_add_subscriber(bond, c.args[2])
    ELSE Bond_remove_subscriber(bond, c.args[2])

\* Callers p and q ran subscriber operations on the same stored bond, both
\* read the record before either wrote, p wrote first and q's write met the
\* table as p's write left it.
Raced(p, q) ==
    /\ p # q
    /\ pc[p] = "returned" /\ call[p].op \in SubscriberOps
    /\ pc[q] = "returned" /\ call[q].op \in SubscriberOps
    /\ call[p].args[1] = call[q].args[1]
    /\ Present(pre[p], call[p].args[1])
    /\ ItemsWithKey(pre[q], call[p].args[1]) = ItemsWithKey(pre[p], call[p].args[1])
    /\ ItemsWithKey(mid[p], call[p].args[1]) = ItemsWithKey(pre[p], call[p].args[1])
    /\ mid[q] = post[p]
    /\ ~StoreFailed(p) /\ ~StoreFailed(q)

\* C13: when two subscriber operations on the same bond have both read the
\* record before either wrote, both succeed, each returning the bond it
\* wrote, and the record the later write leaves has the subscribers the later
\* operation makes of the mapping it read: what the earlier operation wrote
\* is not in it, and no error tells either caller.
C13_LostUpdate ==
    \A p, q \in Procs :
        Raced(p, q) =>
            LET old == ItemOf(pre[q], call[q].args[1])
                written == Effect(call[q], bond_from_item(old))
            IN  /\ ret[p].exc = ""
                /\ ret[q].exc = ""
                /\ ret[q].out = BondValue(written)
                /\ Cardinality(ItemsWithKey(post[q], call[q].args[1])) = 1
                /\ \A new \in ItemsWithKey(post[q], call[q].args[1]) :
                    /\ SameBond(new, written)
                    /\ new.subscribers = jsonable_encoder(written.subscribers)

\* Caller 1 added u1 and caller 2 added u2 to a bond both had read without
\* subscribers; 1 wrote first, both succeeded, and the record has u2 alone.
C13_Witness ==
    /\ Raced(1, 2)
    /\ call[1].op = "add_subscriber" /\ call[2].op = "add_subscriber"
    /\ call[1].args[2].sid # call[2].args[2].sid
    /\ ret[1].exc = "" /\ ret[2].exc = ""
    /\ call[1].args[2].sid \in DOMAIN ItemOf(post[1], call[1].args[1]).subscribers
    /\ DOMAIN ItemOf(post[2], call[2].args[1]).subscribers = {call[2].args[2].sid}
    /\ store = post[2]

(***************************************************************************)
(* C14  Every operation touches one record.                                *)
(***************************************************************************)
WriteOps ==
    {"create_bond", "update_bond", "delete_bond", "add_subscriber", "remove_subscriber"}

\* The bond_id the call c is about.
TargetId(c) ==
    IF c.op \in {"create_bond", "update_bond"} THEN c.args[1].bond_id ELSE c.args[1]

\* The records of the table whose bond_id is not x.
OtherRecords(table, x) == {it \in table : it.bond_id # x}

\* C14: at every point of a create_bond, update_bond, delete_bond,
\* add_subscriber or remove_subscriber call for bond_id x, whatever the call
\* ends with (a bond, an error of the condition, a failure of the store), the
\* records whose bond_id is not x are those the call found: its latest store
\* access changed none of them, and so did the call as a whole.
C14_OneRecord ==
    \A p \in Procs :
        (pc[p] # "idle" /\ call[p].op \in WriteOps) =>
            /\ OtherRecords(post[p], TargetId(call[p])) = OtherRecords(mid[p], TargetId(call[p]))
            /\ OtherRecords(post[p], TargetId(call[p])) = OtherRecords(pre[p], TargetId(call[p]))
            /\ store = post[p]

\* An update_bond changed its record while another record, with other
\* attributes than the bond given, was stored.
C14_Witness ==
    \E p \in Procs :
        /\ Returned(p, "update_bond")
        /\ ret[p].exc = ""
        /\ post[p] # pre[p]
        /\ \E it \in OtherRecords(post[p], TargetId(call[p])) :
            /\ ~SameBond(it, [call[p].args[1] EXCEPT !.bond_id = it.bond_id])
            /\ it \in pre[p]

C16_StoreFailureIsStoreError ==
    \A p \in Procs :
        (pc[p] = "returned" /\ fault[p] # "none") =>
            ret[p].exc = "RegistryClientError"

(***************************************************************************)
(* C17  ConditionalCheckError means the existence check failed.            *)
(***************************************************************************)
\* The operations that check for the record, and whether the check of call
\* c fails on the table: create_bond wants the record absent, the others
\* want it present.
CheckingOps == {"create_bond", "update_bond", "add_subscriber", "remove_subscriber"}

CheckFails(c, table) ==
    IF c.op = "create_bond"
    THEN Present(table, TargetId(c))
    ELSE ~Present(table, TargetId(c))

\* The message the ConditionalCheckError of call c carries.
CheckMessage(c) ==
    CASE c.op = "create_bond" -> <<"Bond already exists: bond_id=", TargetId(c)>>
      [] c.op = "update_bond" -> <<"Bond not found: bond_id=", TargetId(c)>>
      [] c.op = "add_subscriber" ->
            <<"Bond ", TargetId(c), " not found. ", "Cannot add subscriber ", c.args[2].sid, ".">>
      [] c.op = "remove_subscriber" ->
            <<"Bond ", TargetId(c), " not found. ", "Cannot remove subscriber ", c.args[2], ".">>

\* C17: a call ends with ConditionalCheckError only if it is a create_bond
\* that found the record present or an update_bond, add_subscriber or
\* remove_subscriber that found it absent, at a store access that met no
\* failure of the store; and a call whose existence check fails at such an
\* access ends with the ConditionalCheckError the operation raised, message
\* included, not with RegistryClientError.
C17_ConditionalCheckDistinct ==
    \A p \in Procs :
        pc[p] = "returned" =>
            /\ ret[p].exc = "ConditionalCheckError" =>
                /\ call[p].op \in CheckingOps
                /\ fault[p] = "none"
                /\ CheckFails(call[p], mid[p])
            /\ (call[p].op \in CheckingOps /\ fault[p] = "none" /\ CheckFails(call[p], mid[p])) =>
                /\ ret[p].exc = "ConditionalCheckError"
                /\ ret[p].msg = CheckMessage(call[p])
            /\ fault[p] # "none" => ret[p].exc \notin {"", "ConditionalCheckError"}

\* An update_bond for an absent bond ended with ConditionalCheckError at an
\* available store.
C17_Witness ==
    \E p \in Procs :
        /\ Returned(p, "update_bond")
        /\ fault[p] = "none"
        /\ ~Present(mid[p], TargetId(call[p]))
        /\ mid[p] # {}
        /\ ret[p].exc = "ConditionalCheckError"
        /\ ret[p].msg = <<"Bond not found: bond_id=", TargetId(call[p])>>

(***************************************************************************)
(* C18  A failure of the store is surfaced, not retried.                   *)
(***************************************************************************)
\* C18: when a store access of a call meets a failure of the store, the call
\* is over with that access (no further store call is made, the failed one
\* is not made again), it ends with RegistryClientError, and the table is as
\* the call found it.
C18_FailureSurfaced ==
    \A p \in Procs :
        (pc[p] # "idle" /\ fault[p] # "none") =>
            /\ pc[p] = "returned"
            /\ local[p] = <<>>
            /\ ret[p].exc = "RegistryClientError"
            /\ post[p] = mid[p]
            /\ post[p] = pre[p]

(***************************************************************************)
(* C19  create_bond, then get_bond.                                        *)
(***************************************************************************)
\* C19: a create_bond call for a bond b whose bond_id has no stored record
\* succeeds unless the store itself failed, returns b, and leaves exactly one
\* record with that bond_id, whose six fields are those of b (its
\* subscribers the encoded mapping of b, empty when b has none); and a
\* get_bond for that bond_id run on the table the create left, with no write
\* in between, returns a bond equal to b and leaves the table alone.
C19_CreateThenGet ==
    \A p \in Procs :
        (Returned(p, "create_bond") /\ ~Present(pre[p], call[p].args[1].bond_id)
         /\ ~StoreFailed(p)) =>
            LET b == call[p].args[1]
            IN  /\ ret[p].exc = ""
                /\ ret[p].out = BondValue(b)
                /\ Cardinality(ItemsWithKey(post[p], b.bond_id)) = 1
                /\ post[p] \ ItemsWithKey(post[p], b.bond_id) = pre[p]
                /\ \A it \in ItemsWithKey(post[p], b.bond_id) :
                    /\ DOMAIN it = ItemAttributes
                    /\ SameBond(it, b)
                    /\ DOMAIN it.subscribers = DOMAIN b.subscribers
                /\ \A o \in get_bond(post[p], b.bond_id, "none") :
                    /\ o.exc = ""
                    /\ o.out = BondValue(b)
                    /\ o.table = post[p]

\* A create_bond stored a bond with subscribers beside another record.
C19_Witness ==
    \E p \in Procs :
        /\ Returned(p, "create_bond")
        /\ ~Present(pre[p], call[p].args[1].bond_id)
        /\ pre[p] # {}
        /\ ret[p].exc = ""
        /\ DOMAIN call[p].args[1].subscribers # {}
        /\ SameBond(ItemOf(post[p], call[p].args[1].bond_id), call[p].args[1])

(***************************************************************************)
(* C20  add_subscriber, then remove_subscriber.                            *)
(***************************************************************************)
\* Caller p added a subscriber under a key u the stored bond did not have,
\* caller q then removed u from the same bond, and no other write came
\* between p's read and q's write.
AddedThenRemoved(p, q) ==
    /\ p # q
    /\ Returned(p, "add_subscriber") /\ Returned(q, "remove_subscriber")
    /\ call[p].args[1] = call[q].args[1]
    /\ call[p].args[2].sid = call[q].args[2]
    /\ Present(pre[p], call[p].args[1])
    /\ call[q].args[2] \notin DOMAIN ItemOf(pre[p], call[p].args[1]).subscribers
    /\ mid[p] = pre[p]
    /\ pre[q] = post[p]
    /\ mid[q] = pre[q]
    /\ ~StoreFailed(p) /\ ~StoreFailed(q)

\* C20: for a stored bond whose subscribers mapping has no key u, an
\* add_subscriber of a subscriber with sid u followed, with no other write in
\* between, by a remove_subscriber of u leaves the record, in all six
\* fields, and the table as they were before the add; both calls succeed,
\* the record has one entry more after the add, and a mapping that was empty
\* has exactly one entry after the add and none after the remove.
C20_AddThenRemove ==
    \A p, q \in Procs :
        AddedThenRemoved(p, q) =>
            LET x == call[p].args[1]
                before == ItemOf(pre[p], x)
                between == ItemOf(post[p], x)
            IN  /\ ret[p].exc = "" /\ ret[q].exc = ""
                /\ DOMAIN between.subscribers = DOMAIN before.subscribers \cup {call[q].args[2]}
                /\ ItemsWithKey(post[q], x) = {before}
                /\ post[q] = pre[p]
                /\ DOMAIN before.subscribers = {} =>
                    /\ Cardinality(DOMAIN between.subscribers) = 1
                    /\ \A after \in ItemsWithKey(post[q], x) : DOMAIN after.subscribers = {}

\* Caller 1 added a subscriber to a bond that had another one, caller 2
\* removed it again, and the record is as it was.
C20_Witness ==
    /\ AddedThenRemoved(1, 2)
    /\ ret[1].exc = "" /\ ret[2].exc = ""
    /\ DOMAIN ItemOf(pre[1], call[1].args[1]).subscribers # {}
    /\ Cardinality(DOMAIN ItemOf(post[1], call[1].args[1]).subscribers) = 2
    /\ store = pre[1]

(***************************************************************************)
(* C21  The subscribers mapping is keyed by sid.                           *)
(***************************************************************************)
\* C21: in every state the table can be brought to by create_bond,
\* update_bond, add_subscriber and remove_subscriber calls, every key k of
\* the subscribers mapping of every stored record maps to an entry whose sid
\* is k.
C21_KeyedBySid ==
    \A it \in store :
        \A k \in DOMAIN it.subscribers : it.subscribers[k].sid = k

(***************************************************************************)
(* C22  The errors of the existence check name their subject.              *)
(***************************************************************************)
\* The parts a message is put together from.
Parts(msg) == {msg[i] : i \in 1..Len(msg)}

\* The sid passed to the subscriber operation of call c.
SidOf(c) == IF c.op = "add_subscriber" THEN c.args[2].sid ELSE c.args[2]

\* C22: the message of every ConditionalCheckError names the bond_id the
\* call was about and no other: that of the bond for create_bond and
\* update_bond, the bond_id argument for add_subscriber and
\* remove_subscriber; and the message of an add_subscriber or
\* remove_subscriber that found no record also names the sid passed to it,
\* and no other.
C22_ErrorNamesSubject ==
    \A p \in Procs :
        (pc[p] = "returned" /\ ret[p].exc = "ConditionalCheckError") =>
            /\ Parts(ret[p].msg) \cap BondIds = {TargetId(call[p])}
            /\ (call[p].op \in SubscriberOps /\ ~Present(pre[p], TargetId(call[p]))) =>
                Parts(ret[p].msg) \cap Sids = {SidOf(call[p])}

\* A remove_subscriber for an absent bond raised an error that names the
\* bond and the sid, while a record with another bond_id was stored.
C22_Witness ==
    \E p \in Procs :
        /\ Returned(p, "remove_subscriber")
        /\ ret[p].exc = "ConditionalCheckError"
        /\ pre[p] # {}
        /\ call[p].args[1] \in Parts(ret[p].msg)
        /\ call[p].args[2] \in Parts(ret[p].msg)

(***************************************************************************)
(* C23  A call is determined by its arguments and the table.               *)
(***************************************************************************)
\* The operations that are one store call.
SingleCallOps ==
    {"create_bond", "update_bond", "delete_bond", "get_bond"} \cup IndexQueries

\* Results a and b are equal, two lists being equal when they hold the same
\* bonds as often: the order of a list is the store's.
SameResult(a, b) ==
    /\ a.exc = b.exc
    /\ a.msg = b.msg
    /\ a.out.type = b.out.type
    /\ IF a.out.type = "List"
       THEN /\ Len(a.out.val) = Len(b.out.val)
            /\ \A x \in Parts(a.out.val) :
                Cardinality({i \in 1..Len(a.out.val) : a.out.val[i] = x})
                    = Cardinality({i \in 1..Len(b.out.val) : b.out.val[i] = x})
       ELSE a.out = b.out

Endings == {"", "ConditionalCheckError", "RegistryClientError", "EndpointConnectionError"}

HandlerOps ==
    {"main.get_bonds", "main.get_bond", "main.create_bond", "main.update_bond",
     "main.delete_bond", "main.add_subscriber", "main.remove_subscriber"}

\* The query of the engine that a GET of the list is to make: by account id
\* when account_id is given, else by cost center; of the host when by_host,
\* else of the subscriber.
Selected(c, table, f) ==
    LET cost_center_id == c.args[1]
        account_id == c.args[2]
        by_host == c.args[3]
    IN  IF account_id # None
        THEN IF by_host
             THEN get_bonds_by_host_account_id(table, account_id, f)
             ELSE get_bonds_by_sub_account_id(table, account_id, f)
        ELSE IF by_host
             THEN get_bonds_by_host_cost_center(table, cost_center_id, f)
             ELSE get_bonds_by_sub_cost_center(table, cost_center_id, f)

\* What the engine hands to the handler of request c: the outcome of the
\* engine call that ends the request.
EngineOutcomes(c, table, f, g) ==
    CASE c.op = "main.get_bonds" -> Selected(c, table, f)
      [] c.op = "main.get_bond" -> get_bond(table, c.args[1], f)
      [] c.op = "main.create_bond" -> create_bond(table, c.args[1], f)
      [] c.op = "main.delete_bond" -> delete_bond(table, c.args[1], f)
      [] c.op = "main.add_subscriber" -> add_subscriber(table, c.args[1], c.args[2], f, g)
      [] c.op = "main.remove_subscriber" -> remove_subscriber(table, c.args[1], c.args[2], f, g)
      [] c.op = "main.update_bond" ->
            UNION {IF o.exc # "" \/ o.out.type = "None" THEN {o}
                   ELSE update_bond(o.table,
                                    Bond_copy(o.out.val[1], Bond_dict(c.args[2], c.args[3])),
                                    g) :
                        o \in get_bond(table, c.args[1], f)}

\* The engine answered get_bond with None to a handler that asked for the
\* bond of the path.
AbsentResult(c, o) ==
    /\ c.op \in {"main.get_bond", "main.update_bond"}
    /\ o.exc = ""
    /\ o.out.type = "None"

\* C25: the response of every request is that of the engine outcome that
\* ended it, by class: RegistryClientError gives status 500 and
\* ConditionalCheckError (bond already exists, bond not found) status 400,
\* both with the message of the engine as detail; None from get_bond gives
\* status 400 with a detail naming the bond_id of the path; and every other
\* returned value, the list of a GET of the list (empty or not) and the None
\* of a DELETE (of a stored or an absent bond) among them, gives status 200
\* with that value.
C25_StatusByClass ==
    \A p \in Procs :
        (pc[p] = "returned" /\ call[p].op \in HandlerOps) =>
            \E f, g \in Faults :
                /\ f # "none" => g = "none"
                /\ FaultMet(f, g) = fault[p]
                /\ \E o \in EngineOutcomes(call[p], pre[p], f, g) :
                    /\ o.table = post[p]
                    /\ o.exc = "RegistryClientError" =>
                        status_code(ret[p]) = 500 /\ ret[p].msg = o.msg
                    /\ o.exc = "ConditionalCheckError" =>
                        status_code(ret[p]) = 400 /\ ret[p].msg = o.msg
                    /\ AbsentResult(call[p], o) =>
                        /\ status_code(ret[p]) = 400
                        /\ Parts(ret[p].msg) \cap BondIds = {call[p].args[1]}
                    /\ (o.exc = "" /\ ~AbsentResult(call[p], o)) =>
                        status_code(ret[p]) = 200 /\ ret[p].out = o.out

\* A POST of a bond whose bond_id is stored, with a subscriber, has been
\* answered 400 with a detail that names the bond_id.
C25_Witness ==
    \E p \in Procs :
        /\ Returned(p, "main.create_bond")
        /\ Present(pre[p], call[p].args[1].bond_id)
        /\ fault[p] = "none"
        /\ status_code(ret[p]) = 400
        /\ Parts(ret[p].msg) \cap BondIds = {call[p].args[1].bond_id}
        /\ DOMAIN ItemOf(pre[p], call[p].args[1].bond_id).subscribers # {}

(***************************************************************************)
(* C26  The update handler updates the bond of the path.                   *)
(***************************************************************************)
\* C26: a PUT for the bond_id of the path that is answered 200 has left every
\* record with another bond_id as it was, and a PUT for a bond_id that no
\* record has is, unless the store failed, answered 400 and has left the
\* table as it was.
C26_UpdatesPathBond ==
    \A p \in Procs :
        Returned(p, "main.update_bond") =>
            LET bond_id == call[p].args[1]
            IN  /\ status_code(ret[p]) = 200 =>
                    OtherRecords(post[p], bond_id) = OtherRecords(pre[p], bond_id)
                /\ (~Present(pre[p], bond_id) /\ fault[p] = "none") =>
                    /\ status_code(ret[p]) = 400
                    /\ post[p] = pre[p]

(***************************************************************************)
(* C27  The list handler selects its query from (by_host, account_id).     *)
(***************************************************************************)
\* The attribute and the value the list request c is to match.
SelectedAttribute(c) ==
    IF c.args[2] # None
    THEN IF c.args[3] THEN "host_account_id" ELSE "sub_account_id"
    ELSE IF c.args[3] THEN "host_cost_center" ELSE "sub_cost_center"

SelectedValue(c) == IF c.args[2] # None THEN c.args[2] ELSE c.args[1]

\* C27: a GET of the list leaves the table as it was and answers as the one
\* query of the engine does that (by_host, account_id) select, whatever
\* cost_center_id is when account_id is given: its list when it returns one,
\* which is the empty list when no stored bond matches, and an error when
\* it raises one.
C27_QuerySelection ==
    \A p \in Procs :
        Returned(p, "main.get_bonds") =>
            /\ post[p] = pre[p]
            /\ \E o \in Selected(call[p], pre[p], fault[p]) :
                /\ o.exc = "" => (ret[p].exc = "" /\ ret[p].out = o.out)
                /\ o.exc # "" => ret[p].exc # ""
            /\ ret[p].exc = "" =>
                /\ ret[p].out.type = "List"
                /\ {ret[p].out.val[i].bond_id : i \in 1..Len(ret[p].out.val)}
                    = {it.bond_id : it \in Matching(pre[p], SelectedAttribute(call[p]),
                                                    SelectedValue(call[p]))}

\* A list was asked by subscriber account with a cost center given as well,
\* and the bonds of that subscriber account, which are not those of the cost
\* center, were returned.
C27_Witness ==
    \E p \in Procs :
        /\ Returned(p, "main.get_bonds")
        /\ call[p].args[1] # None /\ call[p].args[2] # None /\ ~call[p].args[3]
        /\ ret[p].exc = ""
        /\ Len(ret[p].out.val) > 0
        /\ Matching(pre[p], "sub_account_id", call[p].args[2])
            # Matching(pre[p], "sub_cost_center", call[p].args[1])

(***************************************************************************)
(* C28  Only create_bond adds a bond_id and only delete_bond takes one away. *)
(***************************************************************************)
\* The bond_ids that have a record.
StoredIds(table) == {it.bond_id : it \in table}

\* Caller p ends a call of operation op in this step, having begun it in
\* this step as well: the operation is one store call.
Ends(p, op) ==
    /\ pc[p] = "idle"
    /\ pc'[p] = "returned"
    /\ call'[p].op = op

\* C28: under every interleaving, a step after which a bond_id has a record
\* that had none is the step of a create_bond call for that bond_id that
\* succeeds, and a step after which a bond_id has no record that had one is
\* the step of a delete_bond call for it; so no step of update_bond,
\* add_subscriber, remove_subscriber or a query adds or takes away a
\* bond_id.  And an add_subscriber or remove_subscriber whose bond was
\* stored at its read and was not at its write raises ConditionalCheckError
\* (bond not found) and leaves the bond without a record.
C28_OnlyCreateAndDelete ==
    /\ [][\A x \in BondIds :
            /\ (x \notin StoredIds(store) /\ x \in StoredIds(store')) =>
                \E p \in Procs :
                    /\ Ends(p, "create_bond")
                    /\ call'[p].args[1].bond_id = x
                    /\ ret'[p].exc = ""
            /\ (x \in StoredIds(store) /\ x \notin StoredIds(store')) =>
                \E p \in Procs :
                    /\ Ends(p, "delete_bond")
                    /\ call'[p].args[1] = x]_vars
    /\ [](\A p \in Procs :
            (/\ pc[p] = "returned"
             /\ call[p].op \in SubscriberOps
             /\ Present(pre[p], call[p].args[1])
             /\ ~Present(mid[p], call[p].args[1])) =>
                /\ ret[p].exc = "ConditionalCheckError"
                /\ ret[p].msg = <<"Bond not found: bond_id=", call[p].args[1]>>
                /\ ~Present(post[p], call[p].args[1])
                /\ post[p] = mid[p])

\* An add_subscriber read its bond, another caller's delete_bond then took
\* the record away, and the add_subscriber has made its write.
C28_Witness ==
    \E p, q \in Procs :
        /\ Returned(p, "add_subscriber")
        /\ Present(pre[p], call[p].args[1])
        /\ ~Present(mid[p], call[p].args[1])
        /\ Returned(q, "delete_bond")
        /\ call[q].args[1] = call[p].args[1]
        /\ post[q] = mid[p]

(***************************************************************************)
(* C29  The write of a subscriber operation overwrites an update made      *)
(* since its read.                                                         *)
(***************************************************************************)
\* Caller q's update_bond of the bond of p's subscriber operation committed
\* between the read and the write of p, changing an attribute; the write of
\* p met the table as that update left it.
UpdatedBetween(p, q) ==
    /\ p # q
    /\ pc[p] = "returned" /\ call[p].op \in SubscriberOps
    /\ Present(pre[p], call[p].args[1])
    /\ Returned(q, "update_bond")
    /\ call[q].args[1].bond_id = call[p].args[1]
    /\ ret[q].exc = ""
    /\ pre[q] = pre[p]
    /\ post[q] = mid[p]
    /\ ~SameAttributes(ItemOf(mid[p], call[p].args[1]), ItemOf(pre[p], call[p].args[1]))
    /\ fault[p] = "none"

\* C29: the write of an add_subscriber or remove_subscriber that succeeds
\* leaves the record with the four attributes as the operation read them and
\* with the subscribers it made of the mapping it read; so when an
\* update_bond of the same bond committed between the read and the write,
\* the subscriber operation still succeeds, and the record then has the
\* four attributes as they were before the update, not as the update set
\* them.
C29_WriteRestoresRead ==
    /\ \A p \in Procs :
        (/\ pc[p] = "returned" /\ call[p].op \in SubscriberOps
         /\ Present(pre[p], call[p].args[1])
         /\ ret[p].exc = "") =>
            LET read == ItemOf(pre[p], call[p].args[1])
            IN  /\ Cardinality(ItemsWithKey(post[p], call[p].args[1])) = 1
                /\ SameBond(ItemOf(post[p], call[p].args[1]),
                            Effect(call[p], bond_from_item(read)))
    /\ \A p, q \in Procs :
        UpdatedBetween(p, q) =>
            /\ ret[p].exc = ""
            /\ SameAttributes(ItemOf(post[p], call[p].args[1]),
                              ItemOf(pre[p], call[p].args[1]))
            /\ ~SameAttributes(ItemOf(post[p], call[p].args[1]),
                               ItemOf(post[q], call[p].args[1]))

\* An update_bond that changed host_cost_center committed between the read
\* and the write of an add_subscriber, which has returned.
C29_Witness ==
    \E p, q \in Procs :
        /\ UpdatedBetween(p, q)
        /\ call[p].op = "add_subscriber"
        /\ ItemOf(mid[p], call[p].args[1]).host_cost_center
            # ItemOf(pre[p], call[p].args[1]).host_cost_center

(***************************************************************************)
(* C30  remove_subscriber writes even when it removes nothing.             *)
(***************************************************************************)
\* C30: a remove_subscriber that has read a stored bond does not return at
\* its read, whether the mapping has the key sid or not: it goes on to its
\* write with the bond it read less that key, which is the bond as read when
\* the key is not there; and the step that ends it is one update_bond of
\* that bond on the table as it then is.  So the call makes one write in
\* either case.
C30_RemoveAlwaysWrites ==
    [][\A p \in Procs :
        /\ (/\ pc[p] = "idle" /\ pc'[p] # "idle"
            /\ call'[p].op = "remove_subscriber"
            /\ fault'[p] = "none"
            /\ Present(store, call'[p].args[1])) =>
                LET read == ItemOf(store, call'[p].args[1])
                IN  /\ pc'[p] = "update_bond"
                    /\ store' = store
                    /\ local'[p] = <<Bond_remove_subscriber(bond_from_item(read),
                                                            call'[p].args[2])>>
                    /\ call'[p].args[2] \notin DOMAIN read.subscribers =>
                        SameBond(local'[p][1], read)
        /\ (/\ pc[p] = "update_bond" /\ pc'[p] # "update_bond"
            /\ call[p].op = "remove_subscriber") =>
                /\ pc'[p] = "returned"
                /\ \E o \in update_bond(store, local[p][1], fault'[p]) :
                    /\ store' = o.table
                    /\ ret'[p].exc = o.exc
                    /\ ret'[p].out = o.out]_vars

\* A remove_subscriber of a sid that the mapping, which has another key,
\* does not have has made its write and returned.
C30_Witness ==
    \E p \in Procs :
        /\ Removed(p)
        /\ fault[p] = "none"
        /\ ret[p].exc = ""
        /\ DOMAIN ItemOf(pre[p], call[p].args[1]).subscribers # {}
        /\ call[p].args[2] \notin DOMAIN ItemOf(pre[p], call[p].args[1]).subscribers
        /\ post[p] = pre[p]

(***************************************************************************)
(* C31  A failed subscriber operation leaves no partial change.            *)
(***************************************************************************)
\* C31: in add_subscriber and remove_subscriber the write step is reached
\* only from the read step, which changes nothing in the table, and it
\* writes what the operation made of the bond that step read; a read the
\* store fails ends the call there with an exception (RegistryClientError
\* when the store answered with an error), no write step following and the
\* table as it was; and a write step that fails ends the call with the
\* exception of update_bond, the table, and so the stored bond, as the write
\* step found it.
C31_NoPartialChange ==
    [][\A p \in Procs :
        /\ (pc[p] # "update_bond" /\ pc'[p] = "update_bond") =>
                /\ pc[p] = "idle"
                /\ call'[p].op \in SubscriberOps
                /\ store' = store
                /\ Present(store, call'[p].args[1])
                /\ local'[p] = <<Effect(call'[p],
                                        bond_from_item(ItemOf(store, call'[p].args[1])))>>
        /\ (/\ pc[p] = "idle" /\ pc'[p] # "idle"
            /\ call'[p].op \in SubscriberOps
            /\ fault'[p] # "none") =>
                /\ pc'[p] = "returned"
                /\ store' = store
                /\ ret'[p].exc \notin {"", "ConditionalCheckError"}
                /\ fault'[p] \in {"connect", "call"} => ret'[p].exc = "RegistryClientError"
        /\ (pc[p] = "update_bond" /\ pc'[p] # "update_bond") =>
                /\ pc'[p] = "returned"
                /\ call[p].op \in SubscriberOps
                /\ \E o \in update_bond(store, local[p][1], fault'[p]) :
                    ret'[p].exc = o.exc /\ ret'[p].msg = o.msg
                /\ ret'[p].exc # "" => store' = store
                /\ fault'[p] # "none" => ret'[p].exc \notin {"", "ConditionalCheckError"}
                /\ fault'[p] \in {"connect", "call"} => ret'[p].exc = "RegistryClientError"]_vars

\* The write of an add_subscriber for a stored bond met a failure of the
\* store: the call has returned the store error and the record is as read.
C31_Witness ==
    \E p \in Procs :
        /\ Returned(p, "add_subscriber")
        /\ Present(pre[p], call[p].args[1])
        /\ Present(mid[p], call[p].args[1])
        /\ fault[p] = "call"
        /\ ret[p].exc = "RegistryClientError"
        /\ post[p] = mid[p]
        /\ call[p].args[2].sid \notin DOMAIN ItemOf(post[p], call[p].args[1]).subscribers

(***************************************************************************)
(* C32  A bond_id can be used again after its bond was deleted.            *)
(***************************************************************************)
\* Caller p's delete_bond of a bond_id has completed and caller q's
\* create_bond of a bond with that bond_id met the table as the delete left
\* it.
DeletedThenCreated(p, q) ==
    /\ p # q
    /\ Returned(p, "delete_bond") /\ Returned(q, "create_bond")
    /\ call[q].args[1].bond_id = call[p].args[1]
    /\ ret[p].exc = ""
    /\ fault[p] = "none" /\ fault[q] = "none"
    /\ pre[q] = post[p]

\* C32: a create_bond of a bond with bond_id x that follows a completed
\* delete_bond(x) succeeds, returns the bond it was given, and leaves one
\* record for x, which has the six fields of that bond, whatever the
\* deleted record held (its subscribers among it), and the other records as
\* they were.
C32_ReusableAfterDelete ==
    \A p, q \in Procs :
        DeletedThenCreated(p, q) =>
            LET x == call[p].args[1]
                bond == call[q].args[1]
            IN  /\ ~Present(post[p], x)
                /\ ret[q].exc = ""
                /\ ret[q].out = BondValue(bond)
                /\ Cardinality(ItemsWithKey(post[q], x)) = 1
                /\ SameBond(ItemOf(post[q], x), bond)
                /\ OtherRecords(post[q], x) = OtherRecords(pre[q], x)

\* A bond that had a subscriber was deleted, and a bond with its bond_id,
\* without subscribers, was created after that.
C32_Witness ==
    \E p, q \in Procs :
        /\ DeletedThenCreated(p, q)
        /\ Present(pre[p], call[p].args[1])
        /\ DOMAIN ItemOf(pre[p], call[p].args[1]).subscribers # {}
        /\ DOMAIN ItemOf(post[q], call[p].args[1]).subscribers = {}

(***************************************************************************)
(* C33  add_subscriber is idempotent on the store.                         *)
(***************************************************************************)
\* Caller p added subscriber s to a stored bond, caller q then added the
\* same s to the same bond, and no other write came between the read of p
\* and the write of q.
AddedTwice(p, q) ==
    /\ p # q
    /\ Returned(p, "add_subscriber") /\ Returned(q, "add_subscriber")
    /\ call[p] = call[q]
    /\ Present(pre[p], call[p].args[1])
    /\ mid[p] = pre[p]
    /\ pre[q] = post[p]
    /\ mid[q] = pre[q]
    /\ ~StoreFailed(p) /\ ~StoreFailed(q)

\* C33: when add_subscriber(bond_id, s) is called twice for a stored bond
\* with no other write in between, both calls succeed, they return equal
\* bonds, and the second leaves the table as the first left it: the record
\* has s under s.sid once, the other subscribers and the four attributes as
\* they were.
C33_AddIdempotent ==
    \A p, q \in Procs :
        AddedTwice(p, q) =>
            /\ ret[p].exc = "" /\ ret[q].exc = ""
            /\ ret[p].out.type = "Bond"
            /\ ret[q].out = ret[p].out
            /\ post[q] = post[p]
            /\ SameBond(ItemOf(post[q], call[p].args[1]),
                        Bond_add_subscriber(bond_from_item(ItemOf(pre[p], call[p].args[1])),
                                            call[p].args[2]))

\* A subscriber was added twice to a bond that did not have it and had
\* another subscriber.
C33_Witness ==
    \E p, q \in Procs :
        /\ AddedTwice(p, q)
        /\ call[p].args[2].sid \notin DOMAIN ItemOf(pre[p], call[p].args[1]).subscribers
        /\ DOMAIN ItemOf(pre[p], call[p].args[1]).subscribers # {}
        /\ post[p] # pre[p]

(***************************************************************************)
(* C34  A subscriber operation returns the bond as it is then stored.      *)
(***************************************************************************)
\* C34: with no other caller, the bond a successful add_subscriber or
\* remove_subscriber returns has the bond_id, the four attributes and the
\* subscribers mapping (its keys and, under each key, the sid, name and
\* email) of the one record the table has for that bond_id after the call.
C34_ReturnsStored ==
    \A p \in Procs :
        (/\ pc[p] = "returned" /\ call[p].op \in SubscriberOps
         /\ ret[p].exc = ""
         /\ mid[p] = pre[p]) =>
            /\ ret[p].out.type = "Bond"
            /\ ret[p].out.val[1].bond_id = call[p].args[1]
            /\ Cardinality(ItemsWithKey(post[p], call[p].args[1])) = 1
            /\ SameBond(ret[p].out.val[1], ItemOf(post[p], call[p].args[1]))

\* An add_subscriber returned a bond with two subscribers, the one added and
\* the one the record had.
C34_Witness ==
    \E p \in Procs :
        /\ Returned(p, "add_subscriber")
        /\ ret[p].exc = ""
        /\ Cardinality(DOMAIN ret[p].out.val[1].subscribers) = 2
        /\ Cardinality(DOMAIN ItemOf(pre[p], call[p].args[1]).subscribers) = 1
        /\ post[p] # pre[p]

(***************************************************************************)
(* C35  The update handler writes only the fields the request set.         *)
(***************************************************************************)
\* A PUT for a stored bond, the bond of the body having the bond_id of the
\* path, has been answered 200.
Updated(p) ==
    /\ Returned(p, "main.update_bond")
    /\ call[p].args[2].bond_id = call[p].args[1]
    /\ Present(pre[p], call[p].args[1])
    /\ status_code(ret[p]) = 200

WrappedOps == {"create_bond", "update_bond", "delete_bond", "get_bond"} \cup IndexQueries

\* C36: every store access of a call goes through db_connector.  When the
\* store answers the opening of the connection with an error, the call ends
\* with RegistryClientError "Failed to connect to the database: ..." and the
\* table is as that access found it: the wrapped function wrote nothing.
\* When the connection opens, the wrapped function runs once and what it
\* returns or raises is the caller's, unchanged: create_bond and update_bond
\* return the bond they were given and have written it once, delete_bond
\* returns None, get_bond returns the stored bond or None, an error of the
\* condition stays ConditionalCheckError, and an error the store answers the
\* call itself with is the RegistryClientError of the wrapped function
\* ("Unexpected error querying the registry: ...").
C36_ConnectionWrapper ==
    \A p \in Procs :
        pc[p] = "returned" =>
            /\ fault[p] = "connect" =>
                /\ ret[p].exc = "RegistryClientError"
                /\ ret[p].msg[1] = "Failed to connect to the database: "
                /\ post[p] = mid[p]
            /\ (fault[p] = "call" /\ call[p].op \in WrappedOps) =>
                /\ ret[p].exc = "RegistryClientError"
                /\ ret[p].msg[1] = "Unexpected error querying the registry: "
                /\ post[p] = mid[p]
            /\ (fault[p] = "none" /\ call[p].op \in WrappedOps) =>
                LET x == TargetId(call[p])
                IN  /\ call[p].op = "create_bond" =>
                        IF Present(pre[p], x)
                        THEN ret[p].exc = "ConditionalCheckError" /\ post[p] = pre[p]
                        ELSE /\ ret[p].exc = ""
                             /\ ret[p].out = BondValue(call[p].args[1])
                             /\ Cardinality(post[p]) = Cardinality(pre[p]) + 1
                             /\ SameBond(ItemOf(post[p], x), call[p].args[1])
                    /\ call[p].op = "update_bond" =>
                        IF Present(pre[p], x)
                        THEN /\ ret[p].exc = ""
                             /\ ret[p].out = BondValue(call[p].args[1])
                             /\ Cardinality(post[p]) = Cardinality(pre[p])
                             /\ SameBond(ItemOf(post[p], x), call[p].args[1])
                        ELSE ret[p].exc = "ConditionalCheckError" /\ post[p] = pre[p]
                    /\ call[p].op = "delete_bond" =>
                        /\ ret[p].exc = ""
                        /\ ret[p].out = NoneValue
                        /\ post[p] = OtherRecords(pre[p], x)
                    /\ call[p].op = "get_bond" =>
                        /\ ret[p].exc = ""
                        /\ post[p] = pre[p]
                        /\ ret[p].out = IF Present(pre[p], x)
                                        THEN BondValue(bond_from_item(ItemOf(pre[p], x)))
                                        ELSE NoneValue
                    /\ call[p].op \in IndexQueries =>
                        /\ ret[p].exc = ""
                        /\ ret[p].out.type = "List"
                        /\ post[p] = pre[p]

\* The store answered the opening of the connection of a create_bond of a
\* bond that was not stored with an error: nothing was written.
C36_Witness ==
    \E p \in Procs :
        /\ Returned(p, "create_bond")
        /\ fault[p] = "connect"
        /\ ~Present(pre[p], call[p].args[1].bond_id)
        /\ pre[p] # {}
        /\ ret[p].exc = "RegistryClientError"
        /\ post[p] = pre[p]

=============================================================================
